---- MODULE Spec2Model ----
(***************************************************************************)
(* The offer / segment batched write path of the dashboard's data layer:   *)
(* segmentId, createSegments and createOffers (with its inner commitBatch), *)
(* the MultiReplace statement builder they use and the Exec calls that     *)
(* carry the built statements to the database.                             *)
(*                                                                         *)
(* JavaScript runs one task at a time: a call runs synchronously until it  *)
(* awaits or returns, and only then is the next I/O completion handled.    *)
(* An action is therefore one such run: the call itself up to its first    *)
(* await, or the completion of a write together with whatever the awaiting *)
(* call does next, up to its next await.                                   *)
(***************************************************************************)
EXTENDS Integers, Sequences, FiniteSets, TLC

\* ---------------------------------------------------------------- bounds
\* Inputs have 0, 1 or k*MAX_OFFERS_PER_BATCH + {-1, 0, 1} offers, k = 1..MaxBatches,
\* and the longest has MaxBatches*MAX_OFFERS_PER_BATCH + TailOffers.
MaxBatches == 2
\* Number of rotations of the offer templates the input lists are drawn from.
NumPatterns == 2
\* The longest batch that is run a second time.
MaxRerunOffers == 3

\* ------------------------------------------------------ program constants
DEFAULT_CUSTOMER_ID == 0
MAX_OFFERS_PER_BATCH == 500

Calls == {1, 2}

\* --------------------------------------------------------------- strings
\* Character codes of the strings the model hashes (String.charCodeAt).
CharCodes ==
  "minute" :> <<109, 105, 110, 117, 116, 101>> @@
  "hour" :> <<104, 111, 117, 114>> @@
  "day" :> <<100, 97, 121>> @@
  "olc_8" :> <<111, 108, 99, 95, 56>> @@
  "purchase" :> <<112, 117, 114, 99, 104, 97, 115, 101>> @@
  "request" :> <<114, 101, 113, 117, 101, 115, 116>> @@
  "87G8Q257" :> <<56, 55, 71, 56, 81, 50, 53, 55>> @@
  "Nike" :> <<78, 105, 107, 101>> @@
  "nike.com" :> <<110, 105, 107, 101, 46, 99, 111, 109>>

\* Bitwise exclusive or of two naturals.
RECURSIVE BitXor(_, _)
BitXor(a, b) ==
  IF a = 0 THEN b
  ELSE IF b = 0 THEN a
  ELSE (((a % 2) + (b % 2)) % 2) + 2 * BitXor(a \div 2, b \div 2)

\* A 32-bit unsigned integer is kept as <<high 16 bits, low 16 bits>>.
Word16 == 65536

\* One round of string-hash: hash = (hash * 33) ^ charCode, in 32 bits.
HashStep(h, ch) ==
  LET lo33 == h[2] * 33
      hi33 == ((h[1] * 33) + (lo33 \div Word16)) % Word16
  IN  <<hi33, BitXor(lo33 % Word16, ch)>>

\* string-hash walks the string from its last character to its first,
\* starting from 5381, and returns hash >>> 0.
RECURSIVE HashFrom(_, _, _)
HashFrom(h, chars, i) ==
  IF i = 0 THEN h ELSE HashFrom(HashStep(h, chars[i]), chars, i - 1)

stringHash(chars) == HashFrom(<<0, 5381>>, chars, Len(chars))

\* `${interval}-${kind}-${value}`
SegmentKey(s) ==
  CharCodes[s.interval] \o <<45>> \o CharCodes[s.kind] \o <<45>> \o CharCodes[s.value]


\* Decimal digits (character codes) of a 32-bit unsigned integer.
RECURSIVE Decimal(_)
Decimal(n) ==
  LET mid == ((n[1] % 10) * Word16) + n[2]
      q   == <<n[1] \div 10, mid \div 10>>
      d   == <<48 + (mid % 10)>>
  IN  IF q = <<0, 0>> THEN d ELSE Decimal(q) \o d

\* JSON.stringify of an array of numbers: "[" n1 "," n2 ... "]".
RECURSIVE JoinIds(_, _)
JoinIds(ids, i) ==
  IF i > Len(ids) THEN <<>>
  ELSE (IF i > 1 THEN <<44>> ELSE <<>>) \o Decimal(ids[i]) \o JoinIds(ids, i + 1)

JSONStringify(ids) == <<91>> \o JoinIds(ids, 1) \o <<93>>

\* ---------------------------------------------------------------- inputs
S1 == [interval |-> "minute", kind |-> "olc_8", value |-> "87G8Q257"]
S2 == [interval |-> "hour", kind |-> "purchase", value |-> "Nike"]
S3 == [interval |-> "day", kind |-> "request", value |-> "nike.com"]

Segments == {S1, S2, S3}

\* segmentId = stringHash(`${interval}-${kind}-${value}`), tabulated over the
\* segments of the model so that each hash is computed once.
SegmentIds == [s \in Segments |-> stringHash(SegmentKey(s))]

\* Mutant of segmentId: only the value is hashed.
segmentIdOfValue(s) == stringHash(CharCodes[s.value])

segmentId(s) == SegmentIds[s]

\* The segment lists of the offers the inputs are built from: two offers
\* sharing a segment, offers with a single segment, and an offer that names
\* one segment twice.
SegmentLists == << <<S1, S2>>, <<S2, S3>>, <<S1>>, <<S3, S3>>, <<S2>>, <<S3, S1>> >>

\* The pattern of the input lists whose offers have no segment.
EmptyPattern == Len(SegmentLists)

\* The i-th offer of the input list of pattern p.  Every field but an empty
\* segment list is a value the generator can produce; the bid walks through
\* [2, 15).
InputOffer(p, i) ==
  [segments            |-> IF p = EmptyPattern THEN <<>>
                           ELSE SegmentLists[((i - 1 + p) % Len(SegmentLists)) + 1],
   notificationZone    |-> "POLYGON",
   notificationContent |-> "10% off at Nike",
   notificationTarget  |-> "https://nike.com/s2cellular",
   maximumBidCents     |-> 2 + ((i - 1) % 13)]

\* The tail of the longest input list (the 200 of 500, 500, 200).
TailOffers == 200

Sizes ==
  {0, 1} \cup
  UNION {{k * MAX_OFFERS_PER_BATCH - 1, k * MAX_OFFERS_PER_BATCH,
          k * MAX_OFFERS_PER_BATCH + 1} : k \in 1..MaxBatches} \cup
  {MaxBatches * MAX_OFFERS_PER_BATCH + TailOffers}

Inputs == {[n |-> 0, p |-> 0]} \cup [n : Sizes \ {0}, p : 0..(NumPatterns - 1)]

NoInput == [n |-> 0, p |-> 0]

\* --------------------------------------------------------------- numbers
\* A Number is an IEEE 754 double: 53 significant bits, results rounded to
\* the nearest double, ties to the even one.  The doubles of the generator
\* are non-negative multiples of 2^-53; such a number x is kept as the bits
\* of the natural x * 2^53, lowest bit first, without leading zero bits.
SignificandBits == 53

RECURSIVE Bits(_)
Bits(n) == IF n = 0 THEN <<>> ELSE <<n % 2>> \o Bits(n \div 2)

RECURSIVE NatOfBits(_)
NatOfBits(b) == IF b = <<>> THEN 0 ELSE b[1] + (2 * NatOfBits(Tail(b)))

Zeros(n) == [i \in 1..n |-> 0]

Ones(n) == [i \in 1..n |-> 1]

\* The sum of two naturals (exact).
RECURSIVE AddBits(_, _, _)
AddBits(a, b, carry) ==
  IF a = <<>> /\ b = <<>> THEN Bits(carry)
  ELSE LET x == (IF a = <<>> THEN 0 ELSE a[1]) + (IF b = <<>> THEN 0 ELSE b[1]) + carry
       IN  <<x % 2>> \o AddBits(IF a = <<>> THEN a ELSE Tail(a),
                                IF b = <<>> THEN b ELSE Tail(b), x \div 2)

\* The product of a natural and a small natural (exact).
RECURSIVE MulBits(_, _, _)
MulBits(a, d, carry) ==
  IF a = <<>> THEN Bits(carry)
  ELSE LET x == (a[1] * d) + carry
       IN  <<x % 2>> \o MulBits(Tail(a), d, x \div 2)

\* The exact value rounded to a double: the top 53 bits stay, and the rest
\* rounds them to nearest, a tie to the even significand.
RoundToDouble(m) ==
  IF Len(m) <= SignificandBits THEN m
  ELSE LET e == Len(m) - SignificandBits
           q == SubSeq(m, e + 1, Len(m))
           up == /\ m[e] = 1
                 /\ ((\E i \in 1..(e - 1) : m[i] = 1) \/ q[1] = 1)
       IN  Zeros(e) \o (IF up THEN AddBits(q, <<1>>, 0) ELSE q)

\* The double of an integer.
NumberOfInt(n) == IF n = 0 THEN <<>> ELSE Zeros(SignificandBits) \o Bits(n)

\* Math.floor of a non-negative double.
MathFloor(m) ==
  IF Len(m) <= SignificandBits THEN 0 ELSE NatOfBits(SubSeq(m, SignificandBits + 1, Len(m)))

\* ----------------------------------------------------------------- state
VARIABLES
  input,        \* input[c]: the offers list call c is given (size and pattern)
  waitsFor,     \* waitsFor[c]: the call whose settling the caller awaits before making call c (0: none)
  pc,           \* pc[c]: where call c of createOffers stands
  idx,          \* idx[c]: number of input offers the for loop has consumed
  stmt,         \* stmt[c]: the rows held by the call's MultiReplace("offers") builder
  numOffers,    \* numOffers[c]
  segments,     \* segments[c]: the pending segments
  awaiting,     \* awaiting[c]: the statements the call's Promise.all still waits for
  result,       \* result[c]: the error createOffers rejected with ("none" otherwise)
  stmts,        \* every Exec call made so far, in issue order, with its outcome
  offersRel,    \* the offers relation
  segmentsRel,  \* the segments relation
  gen,          \* the randomOffers call: its argument numOffers and what it returned
  plans,        \* the plan cache and the checkPlans call
  upd,          \* the clock and the chain of runUpdateSegments calls
  reset,        \* the resetSchema call: its statements and progress messages
  pipes,        \* the ensurePipelinesExist call, with its pipelineStatus call
  schema        \* the hasSchema call, with its schemaObjects call

vars == <<input, waitsFor, pc, idx, stmt, numOffers, segments, awaiting, result,
          stmts, offersRel, segmentsRel, gen, plans, upd, reset, pipes, schema>>

\* The state createOffers and the database work on, and the state of the
\* other operations.
offersVars == <<input, waitsFor, pc, idx, stmt, numOffers, segments, awaiting, result,
                stmts, offersRel, segmentsRel>>
adminVars == <<reset, pipes, schema>>
otherVars == <<gen, plans, upd, adminVars>>

OffersColumns == <<"customer_id", "notification_zone", "segment_ids",
                   "notification_content", "notification_target", "maximum_bid_cents">>
SegmentsColumns == <<"segment_id", "valid_interval", "filter_kind", "filter_value">>

\* The errors a statement can fail with.
Errors == {"StatementError: connection", "StatementError: timeout"}

\* --------------------------------------------------------- MultiReplace
\* A builder is its table, its columns and the rows appended so far.
MultiReplace(table, columns) == [table |-> table, columns |-> columns, tuples |-> <<>>]

MR_append(b, values) == [b EXCEPT !.tuples = Append(@, values)]

MR_clear(b) == [b EXCEPT !.tuples = <<>>]

\* The statement text: REPLACE INTO table (columns) VALUES one "(?,..,?)" per row.
MR_sql(b) == [table |-> b.table, columns |-> b.columns, placeholders |-> Len(b.tuples)]

\* The flattened parameter list, row after row.
MR_params(b) ==
  LET w == Len(b.columns)
  IN  [k \in 1..(Len(b.tuples) * w) |-> b.tuples[((k - 1) \div w) + 1][((k - 1) % w) + 1]]

\* ------------------------------------------------------------- database
\* The rows a statement carries: its parameters, one row per placeholder group.
StatementRows(sql, params) ==
  LET w == Len(sql.columns)
  IN  [r \in 1..sql.placeholders |-> [c \in 1..w |-> params[((r - 1) * w) + c]]]

\* REPLACE INTO segments: segment_id is the primary key; a row replaces the row
\* that has its key, and of several rows with one key the last one stays.
ReplaceSegments(rel, rows) ==
  LET ids == {rows[j][1] : j \in 1..Len(rows)}
      last(id) == CHOOSE j \in 1..Len(rows) :
                    /\ rows[j][1] = id
                    /\ \A j2 \in (j + 1)..Len(rows) : rows[j2][1] # id
  IN  {r \in rel : r[1] \notin ids} \cup {rows[last(id)] : id \in ids}

\* REPLACE INTO offers: no written column is a key of the relation (its key,
\* offer_id, is generated by the database), so every row is a new row.
ReplaceOffers(rel, rows) == rel \o rows

\* Exec(config, sql, ...params): the record of an issued statement.
Exec(c, sql, params) ==
  [call |-> c, sql |-> sql, params |-> params, status |-> "pending", error |-> "none"]
\* -------------------------------------------------------- createSegments
SegmentRow(s) == <<segmentId(s), s.interval, s.kind, s.value>>

\* A list without its repeated elements (the first occurrence stays).
RECURSIVE Distinct(_)
Distinct(s) ==
  IF s = <<>> THEN <<>>
  ELSE LET rest == Distinct(SubSeq(s, 1, Len(s) - 1))
       IN  IF s[Len(s)] \in {rest[i] : i \in 1..Len(rest)} THEN rest
           ELSE Append(rest, s[Len(s)])

\* Mutant of SegmentsBuilder: a segment the list repeats is appended once.
SegmentsBuilderDistinct(segs) ==
  [MultiReplace("segments", SegmentsColumns) EXCEPT
     !.tuples = [i \in 1..Len(Distinct(segs)) |-> SegmentRow(Distinct(segs)[i])]]

\* The builder createSegments holds after its for loop: one row per segment
\* of the list, in list order.
SegmentsBuilder(segs) ==
  [MultiReplace("segments", SegmentsColumns) EXCEPT
     !.tuples = [i \in 1..Len(segs) |-> SegmentRow(segs[i])]]

\* Mutant of createSegments: the id of a row is taken from a sequence of the
\* call (call number, position), not from the segment's content.
createSegmentsSequenceIds(c, segs) ==
  LET b == [MultiReplace("segments", SegmentsColumns) EXCEPT
              !.tuples = [i \in 1..Len(segs) |->
                            <<<<c, i>>, segs[i].interval, segs[i].kind, segs[i].value>>]]
  IN  Exec(c, MR_sql(b), MR_params(b))

\* createSegments(config, segments): the statement it executes and awaits.
createSegments(c, segs) ==
  LET b == SegmentsBuilder(segs) IN Exec(c, MR_sql(b), MR_params(b))

\* ---------------------------------------------------------- createOffers
\* Mutant of OfferRow: the ids are made unique before they are serialized.
OfferRowDistinctIds(customerId, offer) ==
  <<customerId,
    offer.notificationZone,
    JSONStringify(Distinct([i \in 1..Len(offer.segments) |-> segmentId(offer.segments[i])])),
    offer.notificationContent,
    offer.notificationTarget,
    offer.maximumBidCents>>

\* The row createOffers appends for an offer.
OfferRow(customerId, offer) ==
  <<customerId,
    offer.notificationZone,
    JSONStringify([i \in 1..Len(offer.segments) |-> segmentId(offer.segments[i])]),
    offer.notificationContent,
    offer.notificationTarget,
    offer.maximumBidCents>>

\* Mutant of ConcatSegments: the pending segments are replaced, not extended.
ConcatSegmentsReplace(segs, offer) == offer.segments

\* Mutant of ConcatSegments: a segment already pending is not added again.
ConcatSegmentsDistinct(segs, offer) == Distinct(segs \o offer.segments)

\* segments = segments.concat(offer.segments)
ConcatSegments(segs, offer) == segs \o offer.segments

\* Mutant of BatchFull: the batch is flushed one offer late.
BatchFullLate(n) == n > MAX_OFFERS_PER_BATCH

\* Mutant of BatchFull: the call flushes, and suspends, one offer early.
BatchFullEarly(n) == n >= MAX_OFFERS_PER_BATCH - 1

\* if (numOffers >= MAX_OFFERS_PER_BATCH)
BatchFull(n) == n >= MAX_OFFERS_PER_BATCH

\* Mutant of BatchLeft: the final partial batch is flushed only if it holds
\* more than one offer.
BatchLeftMany(n) == n > 1

\* if (numOffers > 0), after the loop
BatchLeft(n) == n > 0

\* Mutant of Increment: the counter counts an offer twice.
IncrementTwice(n) == n + 2

\* numOffers++
Increment(n) == n + 1

\* The locals of call c, with its control position.
Locals(c) ==
  [pc |-> pc[c], idx |-> idx[c], stmt |-> stmt[c],
   numOffers |-> numOffers[c], segments |-> segments[c]]

\* The first lines of createOffers: the builder and the two locals.
InitialLocals ==
  [pc |-> "loop", idx |-> 0, stmt |-> MultiReplace("offers", OffersColumns),
   numOffers |-> 0, segments |-> <<>>]

\* One iteration of the for loop, up to the await of commitBatch.
LoopBody(c, L) ==
  LET offer == InputOffer(input[c].p, L.idx + 1)
  IN  [L EXCEPT
         !.stmt = MR_append(@, OfferRow(DEFAULT_CUSTOMER_ID, offer)),
         !.numOffers = Increment(@),
         !.segments = ConcatSegments(@, offer),
         !.idx = @ + 1,
         !.pc = IF BatchFull(Increment(L.numOffers)) THEN "commit_loop" ELSE "loop"]

\* The next iteration, if the loop has one and the call has not suspended.
LoopStep(c, L) ==
  IF L.pc = "loop" /\ L.idx < input[c].n THEN LoopBody(c, L) ELSE L

\* n iterations of the loop (fewer when the call suspends earlier).  The state
\* after the first half is bound as a value, so that it is computed once.
RECURSIVE Iterate(_, _, _)
Iterate(c, L, n) ==
  IF n = 0 THEN L
  ELSE IF n = 1 THEN LoopStep(c, L)
  ELSE CHOOSE M \in {Iterate(c, H, n - (n \div 2)) : H \in {Iterate(c, L, n \div 2)}} : TRUE

\* After the loop: the final commitBatch, or return.
LoopExit(c, L) ==
  IF L.pc # "loop" THEN L
  ELSE IF BatchLeft(L.numOffers) THEN [L EXCEPT !.pc = "commit_final"]
  ELSE [L EXCEPT !.pc = "resolved"]

\* The call runs from the head of the for loop to its next commitBatch, or to
\* its return.
RunLoop(c, L) == LoopExit(c, Iterate(c, L, input[c].n - L.idx))

\* Mutant of BatchStatements: createSegments is not called for a batch
\* without segments.
BatchStatementsSkipEmpty(c, L) ==
  IF L.segments = <<>>
    THEN << Exec(c, MR_sql(L.stmt), MR_params(L.stmt)) >>
    ELSE << Exec(c, MR_sql(L.stmt), MR_params(L.stmt)),
            createSegments(c, L.segments) >>

\* The statements commitBatch issues, in issue order: the arguments of
\* Promise.all are evaluated left to right, each up to its first await.
BatchStatements(c, L) ==
  << Exec(c, MR_sql(L.stmt), MR_params(L.stmt)),
     createSegments(c, L.segments) >>

\* Mutant of AfterCommit: the builder is not cleared.
AfterCommitNoClear(L) ==
  [L EXCEPT !.segments = <<>>, !.numOffers = 0]

\* Mutant of AfterCommit: only the counter is reset.
AfterCommitCounterOnly(L) ==
  [L EXCEPT !.numOffers = 0]

\* Mutant of AfterCommit: the counter is not reset.
AfterCommitKeepCounter(L) ==
  [L EXCEPT !.stmt = MR_clear(@), !.segments = <<>>]

\* commitBatch after its await: stmt.clear(), segments = [], numOffers = 0.
AfterCommit(L) ==
  [L EXCEPT !.stmt = MR_clear(@), !.segments = <<>>, !.numOffers = 0]

\* Mutant of Awaited: only the offers write is awaited, createSegments is
\* left running on its own.
AwaitedOffersOnly(log, batch) == IF batch = <<>> THEN {} ELSE {Len(log) + 1}

\* Promise.all([...]) over the writes just issued: the statements (positions of
\* the log) the call awaits.
Awaited(log, batch) == (Len(log) + 1)..(Len(log) + Len(batch))

\* Call c runs on from locals L (at the head of the for loop) until it awaits
\* the writes of its next commitBatch or returns; log is the statement log
\* this run finds.
RunToAwait(c, L, log) ==
  \E M \in {RunLoop(c, L)} :
  \E batch \in {IF M.pc \in {"commit_loop", "commit_final"}
                  THEN BatchStatements(c, M) ELSE <<>>} :
      /\ pc' = [pc EXCEPT ![c] =
                  IF M.pc = "commit_loop" THEN "await_loop"
                  ELSE IF M.pc = "commit_final" THEN "await_final"
                  ELSE M.pc]
      /\ idx' = [idx EXCEPT ![c] = M.idx]
      /\ stmt' = [stmt EXCEPT ![c] = M.stmt]
      /\ numOffers' = [numOffers EXCEPT ![c] = M.numOffers]
      /\ segments' = [segments EXCEPT ![c] = M.segments]
      /\ stmts' = log \o batch
      /\ awaiting' = [awaiting EXCEPT ![c] = Awaited(log, batch)]

Settled(c) == pc[c] \in {"resolved", "rejected"}

\* Mutant of Start: the builder, the counter and the pending segments are
\* module-level objects that the two calls share.
StartSharedBuilder(c) ==
  /\ pc[c] = "idle"
  /\ IF waitsFor[c] = 0 THEN TRUE ELSE Settled(waitsFor[c])
  /\ RunToAwait(c, [pc |-> "loop", idx |-> 0, stmt |-> stmt[3 - c],
                    numOffers |-> numOffers[3 - c], segments |-> segments[3 - c]], stmts)
  /\ UNCHANGED <<input, waitsFor, result, offersRel, segmentsRel>>
  /\ UNCHANGED otherVars

\* The caller invokes createOffers: it runs up to its first await, or returns.
Start(c) ==
  /\ pc[c] = "idle"
  /\ IF waitsFor[c] = 0 THEN TRUE ELSE Settled(waitsFor[c])
  /\ RunToAwait(c, InitialLocals, stmts)
  /\ UNCHANGED <<input, waitsFor, result, offersRel, segmentsRel>>
  /\ UNCHANGED otherVars

\* The caller invokes createSegments(config, segments[c]) itself: the
\* statement is built from the list, executed and awaited.
CallCreateSegments(c) ==
  /\ pc[c] = "segments_idle"
  /\ pc' = [pc EXCEPT ![c] = "await_segments"]
  /\ stmts' = Append(stmts, createSegments(c, segments[c]))
  /\ awaiting' = [awaiting EXCEPT ![c] = {Len(stmts) + 1}]
  /\ UNCHANGED <<input, waitsFor, idx, stmt, numOffers, segments, result,
                 offersRel, segmentsRel>>
  /\ UNCHANGED otherVars

\* The awaited writes have fulfilled.  commitBatch returns to createOffers,
\* which goes on: in the loop, or to its end after the final commitBatch.  A
\* createSegments call made by the caller itself returns.
Continue(c, log) ==
  IF pc[c] = "await_segments"
    THEN /\ pc' = [pc EXCEPT ![c] = "resolved"]
         /\ awaiting' = [awaiting EXCEPT ![c] = {}]
         /\ stmts' = log
         /\ UNCHANGED <<idx, stmt, numOffers, segments>>
  ELSE IF pc[c] = "await_loop"
    THEN RunToAwait(c, [AfterCommit(Locals(c)) EXCEPT !.pc = "loop"], log)
    ELSE \E M \in {AfterCommit(Locals(c))} :
           /\ pc' = [pc EXCEPT ![c] = "resolved"]
           /\ stmt' = [stmt EXCEPT ![c] = M.stmt]
           /\ numOffers' = [numOffers EXCEPT ![c] = M.numOffers]
           /\ segments' = [segments EXCEPT ![c] = M.segments]
           /\ awaiting' = [awaiting EXCEPT ![c] = {}]
           /\ stmts' = log
           /\ UNCHANGED idx

\* Mutant of OnFulfilled: the call goes on as soon as one write has fulfilled
\* (Promise.race instead of Promise.all).
OnFulfilledFirst(c, k, log) ==
  /\ Continue(c, log)
  /\ UNCHANGED result

\* await Promise.all([...]) when write k fulfils: the call stays suspended
\* until every write of the batch has fulfilled; then commitBatch finishes.
OnFulfilled(c, k, log) ==
  /\ IF awaiting[c] \ {k} # {}
       THEN /\ awaiting' = [awaiting EXCEPT ![c] = @ \ {k}]
            /\ stmts' = log
            /\ UNCHANGED <<pc, idx, stmt, numOffers, segments>>
       ELSE Continue(c, log)
  /\ UNCHANGED result

\* Mutant of OnRejected: the error is wrapped in a new one.
OnRejectedWrapped(c, k, e, log) ==
  /\ awaiting' = [awaiting EXCEPT ![c] = {}]
  /\ pc' = [pc EXCEPT ![c] = "rejected"]
  /\ result' = [result EXCEPT ![c] = "Error: batch failed"]
  /\ stmts' = log
  /\ UNCHANGED <<idx, stmt, numOffers, segments>>

\* Mutant of OnRejected: the rejection is caught and dropped, the write counts
\* as done.
OnRejectedSwallowed(c, k, e, log) ==
  /\ IF awaiting[c] \ {k} # {}
       THEN /\ awaiting' = [awaiting EXCEPT ![c] = @ \ {k}]
            /\ stmts' = log
            /\ UNCHANGED <<pc, idx, stmt, numOffers, segments>>
       ELSE Continue(c, log)
  /\ UNCHANGED result

\* Mutant of OnRejected: the failed batch is issued again, once, before the
\* call gives up.
OnRejectedRetried(c, k, e, log) ==
  IF Cardinality({j \in 1..Len(log) : log[j].call = c /\ log[j].status = "failed"}) = 1
    THEN \E batch \in {BatchStatements(c, Locals(c))} :
           /\ stmts' = log \o batch
           /\ awaiting' = [awaiting EXCEPT ![c] = Awaited(log, batch)]
           /\ UNCHANGED <<pc, result, idx, stmt, numOffers, segments>>
    ELSE /\ awaiting' = [awaiting EXCEPT ![c] = {}]
         /\ pc' = [pc EXCEPT ![c] = "rejected"]
         /\ result' = [result EXCEPT ![c] = e]
         /\ stmts' = log
         /\ UNCHANGED <<idx, stmt, numOffers, segments>>

\* await Promise.all([...]) when write k rejects with e: Promise.all rejects
\* with the first rejection, commitBatch throws e and createOffers rejects
\* with it; nothing is cleared, nothing more is issued and the other write is
\* not waited for.
OnRejected(c, k, e, log) ==
  /\ awaiting' = [awaiting EXCEPT ![c] = {}]
  /\ pc' = [pc EXCEPT ![c] = "rejected"]
  /\ result' = [result EXCEPT ![c] = e]
  /\ stmts' = log
  /\ UNCHANGED <<idx, stmt, numOffers, segments>>

\* Statement k succeeds: its rows are committed, and the call awaiting it (if
\* it still does) is told.
ExecSucceed(k) ==
  LET c == stmts[k].call
      rows == StatementRows(stmts[k].sql, stmts[k].params)
      log == [stmts EXCEPT ![k].status = "ok"]
  IN  /\ stmts[k].status = "pending"
      /\ IF stmts[k].sql.table = "offers"
           THEN /\ offersRel' = ReplaceOffers(offersRel, rows)
                /\ UNCHANGED segmentsRel
           ELSE /\ segmentsRel' = ReplaceSegments(segmentsRel, rows)
                /\ UNCHANGED offersRel
      /\ IF k \in awaiting[c]
           THEN OnFulfilled(c, k, log)
           ELSE /\ stmts' = log
                /\ UNCHANGED <<awaiting, pc, idx, stmt, numOffers, segments, result>>
      /\ UNCHANGED <<input, waitsFor>>
      /\ UNCHANGED otherVars

\* Statement k fails with error e: nothing is committed, and the call awaiting
\* it (if it still does) is told.
ExecFail(k, e) ==
  LET c == stmts[k].call
      log == [stmts EXCEPT ![k].status = "failed", ![k].error = e]
  IN  /\ stmts[k].status = "pending"
      /\ IF k \in awaiting[c]
           THEN OnRejected(c, k, e, log)
           ELSE /\ stmts' = log
                /\ UNCHANGED <<awaiting, pc, result, idx, stmt, numOffers, segments>>
      /\ UNCHANGED <<input, waitsFor, offersRel, segmentsRel>>
      /\ UNCHANGED otherVars

\* ------------------------------------------------------- specifications
\* No randomOffers call is made.
NoGenerator == [pc |-> "unused", numOffers |-> 0, offers |-> <<>>]

\* No checkPlans call is made.
NoPlans ==
  [cache |-> {}, pc |-> "unused", badPlans |-> <<>>, pending |-> {}, dropped |-> {},
   result |-> "none"]

\* No runUpdateSegments call is made.
NoUpdate ==
  [clock |-> 0, pc |-> "unused", since |-> 0, nowISO |-> 0, pruneSegments |-> TRUE,
   execs |-> <<>>, result |-> 0, chain |-> <<>>, calls |-> 0]

\* No resetSchema call is made.
NoReset ==
  [pc |-> "unused", i |-> 0, includeSeedData |-> FALSE, resetDataOnly |-> FALSE,
   issued |-> <<>>, awaiting |-> {}, progress |-> <<>>]

\* No ensurePipelinesExist call is made.
NoPipes == [pc |-> "unused", rows |-> <<>>, pipelines |-> <<>>, log |-> <<>>]

\* No hasSchema call is made.
NoSchema ==
  [pc |-> "unused", rows |-> {}, error |-> "none", thrown |-> "none",
   objects |-> <<>>, result |-> FALSE]

InitAdmin ==
  /\ reset = NoReset
  /\ pipes = NoPipes
  /\ schema = NoSchema

InitOthers ==
  /\ gen = NoGenerator
  /\ plans = NoPlans
  /\ upd = NoUpdate
  /\ InitAdmin

InitLocals ==
  /\ idx = [c \in Calls |-> 0]
  /\ stmt = [c \in Calls |-> MultiReplace("offers", OffersColumns)]
  /\ numOffers = [c \in Calls |-> 0]
  /\ segments = [c \in Calls |-> <<>>]
  /\ awaiting = [c \in Calls |-> {}]
  /\ result = [c \in Calls |-> "none"]
  /\ stmts = <<>>
  /\ offersRel = <<>>
  /\ segmentsRel = {}

\* One createOffers call on an empty database.
Init ==
  /\ \E in \in Inputs : input = [c \in Calls |-> IF c = 1 THEN in ELSE NoInput]
  /\ waitsFor = [c \in Calls |-> 0]
  /\ pc = [c \in Calls |-> IF c = 1 THEN "idle" ELSE "absent"]
  /\ InitLocals
  /\ InitOthers

Next ==
  \/ \E c \in Calls : Start(c)
  \/ \E k \in 1..Len(stmts) : ExecSucceed(k)
  \/ \E k \in 1..Len(stmts), e \in Errors : ExecFail(k, e)

Spec == Init /\ [][Next]_vars

\* The recovery path: the caller makes the same call again (the same offers,
\* one batch of them) once the first call has settled, after its failure or
\* after its success.
RerunInputs == [n : 1..MaxRerunOffers, p : 0..(NumPatterns - 1)]

InitRerun ==
  /\ \E in \in RerunInputs : input = [c \in Calls |-> in]
  /\ waitsFor = [c \in Calls |-> IF c = 2 THEN 1 ELSE 0]
  /\ pc = [c \in Calls |-> "idle"]
  /\ InitLocals
  /\ InitOthers

SpecRerun == InitRerun /\ [][Next]_vars

\* Two createOffers calls made without awaiting the first: one over a batch
\* and one offer more (two flushes), the other over one offer or one full
\* batch, the two on different offers.
ConcurrentInputs ==
  {[c \in Calls |-> IF c = 1 THEN [n |-> MAX_OFFERS_PER_BATCH + 1, p |-> 0]
                              ELSE [n |-> n2, p |-> 1]] :
     n2 \in {1, MAX_OFFERS_PER_BATCH}}

InitConcurrent ==
  /\ input \in ConcurrentInputs
  /\ waitsFor = [c \in Calls |-> 0]
  /\ pc = [c \in Calls |-> "idle"]
  /\ InitLocals
  /\ InitOthers

SpecConcurrent == InitConcurrent /\ [][Next]_vars

\* A createOffers call over offers that have no segment (one offer, a full
\* batch, a full batch and one more) or over two offers that have some, next
\* to a createSegments call the caller makes itself, with an empty list or
\* with a list of two.
SegmentlessInputs ==
  [n : {1, MAX_OFFERS_PER_BATCH, MAX_OFFERS_PER_BATCH + 1}, p : {EmptyPattern}]
    \cup {[n |-> 2, p |-> 0]}

DirectSegmentLists == {<<>>, <<S1, S1>>}

InitSegmentless ==
  /\ \E in \in SegmentlessInputs : input = [c \in Calls |-> IF c = 1 THEN in ELSE NoInput]
  /\ waitsFor = [c \in Calls |-> 0]
  /\ pc = [c \in Calls |-> IF c = 1 THEN "idle" ELSE "segments_idle"]
  /\ idx = [c \in Calls |-> 0]
  /\ stmt = [c \in Calls |-> MultiReplace("offers", OffersColumns)]
  /\ numOffers = [c \in Calls |-> 0]
  /\ \E segs \in DirectSegmentLists : segments = [c \in Calls |-> IF c = 1 THEN <<>> ELSE segs]
  /\ awaiting = [c \in Calls |-> {}]
  /\ result = [c \in Calls |-> "none"]
  /\ stmts = <<>>
  /\ offersRel = <<>>
  /\ segmentsRel = {}
  /\ InitOthers

NextSegmentless ==
  \/ \E c \in Calls : Start(c)
  \/ \E c \in Calls : CallCreateSegments(c)
  \/ \E k \in 1..Len(stmts) : ExecSucceed(k)
  \/ \E k \in 1..Len(stmts), e \in Errors : ExecFail(k, e)

SpecSegmentless == InitSegmentless /\ [][NextSegmentless]_vars

\* ------------------------------------------------------------ generator
\* The longest list randomOffers is asked for.
MaxGenerated == 2

\* Values Math.random() can return: 0, 2^-53, the double below 1/2, 1/2, and
\* the largest values below 1 an engine can produce, 1 - 2^-52 (52 random
\* bits) and 1 - 2^-53 (53 random bits, the largest double below 1).
MathRandom ==
  {<<>>, <<1>>, Ones(SignificandBits - 1), Zeros(SignificandBits - 1) \o <<1>>,
   <<0>> \o Ones(SignificandBits - 1), Ones(SignificandBits)}

\* Math.random() * (max - min) + min: each operation rounds to a double.
randomFloatInRange(min, max, random) ==
  RoundToDouble(AddBits(RoundToDouble(MulBits(random, max - min, 0)), NumberOfInt(min), 0))

\* Math.floor(randomFloatInRange(min, max))
randomIntegerInRange(min, max, random) ==
  MathFloor(randomFloatInRange(min, max, random))

\* The segments randomSegment can return: what the geocoder and the vendor
\* catalog give for the city is not looked into, any segment may come out.
GeneratedSegments == {S1, S2}

\* randomOffer(city), given the value Math.random() returns for numSegments,
\* the segments the numSegments calls of randomSegment return, and the value
\* Math.random() returns for maximumBidCents.
randomOffer(segs, randomBid) ==
  [segments            |-> segs,
   notificationZone    |-> "POLYGON",
   notificationContent |-> "10% off at Nike",
   notificationTarget  |-> "https://nike.com/s2cellular",
   maximumBidCents     |-> randomIntegerInRange(2, 15, randomBid)]

\* Every offer randomOffer can return.
RandomOfferResults ==
  UNION {{randomOffer(segs, randomBid) :
            segs \in [1..randomIntegerInRange(1, 3, randomNum) -> GeneratedSegments],
            randomBid \in MathRandom} : randomNum \in MathRandom}

\* Mutant of ArrayLength: the last element is not produced.
ArrayLengthShort(length) == IF length > 0 THEN length - 1 ELSE 0

\* Array.from({ length: numOffers }, ...): the length of the array it makes.
ArrayLength(length) == length

\* randomOffers(city, numOffers): Array.from calls randomOffer once per element.
randomOffers ==
  /\ gen.pc = "idle"
  /\ \E offers \in [1..ArrayLength(gen.numOffers) -> RandomOfferResults] :
       gen' = [gen EXCEPT !.pc = "returned", !.offers = offers]
  /\ UNCHANGED <<offersVars, adminVars, plans, upd>>

\* No createOffers call is made; randomOffers is called with a count.
InitRandom ==
  /\ input = [c \in Calls |-> NoInput]
  /\ waitsFor = [c \in Calls |-> 0]
  /\ pc = [c \in Calls |-> "absent"]
  /\ InitLocals
  /\ \E n \in 0..MaxGenerated : gen = [pc |-> "idle", numOffers |-> n, offers |-> <<>>]
  /\ plans = NoPlans
  /\ upd = NoUpdate
  /\ InitAdmin

NextRandom == randomOffers

SpecRandom == InitRandom /\ [][NextRandom]_vars

\* ------------------------------------------------------------ checkPlans
\* The plans the plan cache can hold with an "empty tables" warning.
MaxPlans == 3

PlanIds == 1..MaxPlans

\* The elements of a set of plan ids as a list, in id order.
PlanList(S) ==
  [j \in 1..Cardinality(S) |-> CHOOSE x \in S : Cardinality({y \in S : y < x}) = j - 1]

\* return badPlans.length > 0
PlansReturnValue(badPlans) == IF Len(badPlans) > 0 THEN "true" ELSE "false"

\* checkPlans(config) is called: it issues its Query and awaits it.
checkPlans ==
  /\ plans.pc = "idle"
  /\ plans' = [plans EXCEPT !.pc = "await_query"]
  /\ UNCHANGED <<offersVars, adminVars, gen, upd>>

\* The Query returns the plans that carry the warning now.  checkPlans issues
\* one DROP per plan and awaits them all; with no plan, Promise.all([]) is
\* fulfilled at once and checkPlans returns badPlans.length > 0.
PlansQueryReturns ==
  /\ plans.pc = "await_query"
  /\ \E bad \in {PlanList(plans.cache)} :
       plans' = IF bad = <<>>
                  THEN [plans EXCEPT !.badPlans = bad, !.pc = "returned",
                                     !.result = PlansReturnValue(bad)]
                  ELSE [plans EXCEPT !.badPlans = bad, !.pc = "await_drops",
                                     !.pending = plans.cache]
  /\ UNCHANGED <<offersVars, adminVars, gen, upd>>

\* The Query fails: checkPlans rejects.
PlansQueryFails ==
  /\ plans.pc = "await_query"
  /\ plans' = [plans EXCEPT !.pc = "threw"]
  /\ UNCHANGED <<offersVars, adminVars, gen, upd>>

\* DROP planId FROM PLANCACHE ends.  The plan is dropped if the cache holds
\* it; otherwise the statement fails with the plan-missing SQLError, which
\* rejects Promise.all and is caught: checkPlans goes on to its return, not
\* waiting for the other statements.  When the last statement succeeds
\* checkPlans returns too.  A statement that ends after checkPlans has
\* settled changes the cache only.
PlansDropEnds(planId) ==
  /\ planId \in plans.pending
  /\ plans' =
       IF planId \in plans.cache
         THEN [plans EXCEPT
                 !.cache = @ \ {planId},
                 !.pending = @ \ {planId},
                 !.dropped = IF plans.pc = "await_drops" THEN @ \cup {planId} ELSE @,
                 !.pc = IF plans.pc = "await_drops" /\ plans.pending = {planId}
                          THEN "returned" ELSE @,
                 !.result = IF plans.pc = "await_drops" /\ plans.pending = {planId}
                              THEN PlansReturnValue(plans.badPlans) ELSE @]
         ELSE [plans EXCEPT
                 !.pending = @ \ {planId},
                 !.pc = IF plans.pc = "await_drops" THEN "returned" ELSE @,
                 !.result = IF plans.pc = "await_drops"
                              THEN PlansReturnValue(plans.badPlans) ELSE @]
  /\ UNCHANGED <<offersVars, adminVars, gen, upd>>

\* DROP planId FROM PLANCACHE fails with another error: the catch rethrows
\* it and checkPlans rejects.
PlansDropFails(planId) ==
  /\ planId \in plans.pending
  /\ plans' = [plans EXCEPT
                 !.pending = @ \ {planId},
                 !.pc = IF plans.pc = "await_drops" THEN "threw" ELSE @]
  /\ UNCHANGED <<offersVars, adminVars, gen, upd>>

\* A plan leaves the cache without this call (another session drops it, the
\* database evicts it): the case the plan-missing error is caught for.
PlanLeavesCache(planId) ==
  /\ planId \in plans.cache
  /\ plans' = [plans EXCEPT !.cache = @ \ {planId}]
  /\ UNCHANGED <<offersVars, adminVars, gen, upd>>

\* checkPlans is called with any set of warned plans in the cache.
InitPlans ==
  /\ input = [c \in Calls |-> NoInput]
  /\ waitsFor = [c \in Calls |-> 0]
  /\ pc = [c \in Calls |-> "absent"]
  /\ InitLocals
  /\ gen = NoGenerator
  /\ \E cache \in SUBSET PlanIds : plans = [NoPlans EXCEPT !.cache = cache, !.pc = "idle"]
  /\ upd = NoUpdate
  /\ InitAdmin

NextPlans ==
  \/ checkPlans
  \/ PlansQueryReturns
  \/ PlansQueryFails
  \/ \E planId \in PlanIds : PlansDropEnds(planId)
  \/ \E planId \in PlanIds : PlansDropFails(planId)
  \/ \E planId \in PlanIds : PlanLeavesCache(planId)

SpecPlans == InitPlans /\ [][NextPlans]_vars

\* ----------------------------------------------------- runUpdateSegments
\* The clock is read in milliseconds and runs up to MaxClock; the caller
\* makes up to MaxUpdateCalls calls.
MaxClock == 3
MaxUpdateCalls == 3

\* toISOStringNoTZ(date): the text of the instant, to the millisecond.  Texts
\* of this form are ordered as their instants are, so the text is kept as
\* the number of milliseconds.
toISOStringNoTZ(date) == date

\* An issued statement of runUpdateSegments.
UpdateExec(sql, params) == [sql |-> sql, params |-> params, status |-> "pending"]

\* Mutant of ReturnedTimestamp: the clock is read again for the result.
ReturnedTimestampFresh(u) == toISOStringNoTZ(u.clock)

\* return nowISO
ReturnedTimestamp(u) == u.nowISO

\* runUpdateSegments returns: the caller holds the result, and the window the
\* update procedure was given joins the chain of the calls that returned.
UpdateReturns(u) ==
  [u EXCEPT !.pc = "returned",
            !.result = ReturnedTimestamp(u),
            !.chain = Append(@, [since |-> u.execs[1].params[1],
                                 until |-> u.execs[1].params[2],
                                 result |-> ReturnedTimestamp(u)])]

\* Time passes (the clock is taken not to step back).
ClockTick ==
  /\ upd.pc # "unused"
  /\ upd.clock < MaxClock
  /\ upd' = [upd EXCEPT !.clock = @ + 1]
  /\ UNCHANGED <<offersVars, adminVars, gen, plans>>

\* runUpdateSegments(config, since, pruneSegments): reads the clock, calls
\* update_segments(since, nowISO) and awaits it.  The caller passes the
\* result of its last call that returned as since.
runUpdateSegments(pruneSegments) ==
  /\ upd.pc \in {"idle", "returned", "threw"}
  /\ upd.calls < MaxUpdateCalls
  /\ \E since \in {IF upd.chain = <<>> THEN upd.since ELSE upd.result} :
     \E nowISO \in {toISOStringNoTZ(upd.clock)} :
       upd' = [upd EXCEPT
                 !.pc = "await_update",
                 !.calls = @ + 1,
                 !.since = since,
                 !.nowISO = nowISO,
                 !.pruneSegments = pruneSegments,
                 !.execs = <<UpdateExec("CALL update_segments(?, ?)", <<since, nowISO>>)>>]
  /\ UNCHANGED <<offersVars, adminVars, gen, plans>>

\* update_segments succeeds: prune_segments(nowISO) is called and awaited if
\* pruneSegments is set; otherwise runUpdateSegments returns nowISO.
UpdateSegmentsSucceeds ==
  /\ upd.pc = "await_update"
  /\ \E u \in {[upd EXCEPT !.execs[1].status = "ok"]} :
       upd' = IF u.pruneSegments
                THEN [u EXCEPT !.pc = "await_prune",
                               !.execs = Append(@, UpdateExec("CALL prune_segments(?)",
                                                              <<u.nowISO>>))]
                ELSE UpdateReturns(u)
  /\ UNCHANGED <<offersVars, adminVars, gen, plans>>

\* update_segments fails: runUpdateSegments rejects.
UpdateSegmentsFails ==
  /\ upd.pc = "await_update"
  /\ upd' = [upd EXCEPT !.execs[1].status = "failed", !.pc = "threw"]
  /\ UNCHANGED <<offersVars, adminVars, gen, plans>>

\* prune_segments succeeds: runUpdateSegments returns nowISO.
PruneSegmentsSucceeds ==
  /\ upd.pc = "await_prune"
  /\ upd' = UpdateReturns([upd EXCEPT !.execs[2].status = "ok"])
  /\ UNCHANGED <<offersVars, adminVars, gen, plans>>

\* prune_segments fails: runUpdateSegments rejects.
PruneSegmentsFails ==
  /\ upd.pc = "await_prune"
  /\ upd' = [upd EXCEPT !.execs[2].status = "failed", !.pc = "threw"]
  /\ UNCHANGED <<offersVars, adminVars, gen, plans>>

\* A chain of runUpdateSegments calls, the first with since = 0.
InitUpdate ==
  /\ input = [c \in Calls |-> NoInput]
  /\ waitsFor = [c \in Calls |-> 0]
  /\ pc = [c \in Calls |-> "absent"]
  /\ InitLocals
  /\ gen = NoGenerator
  /\ plans = NoPlans
  /\ upd = [NoUpdate EXCEPT !.pc = "idle"]
  /\ InitAdmin

NextUpdate ==
  \/ ClockTick
  \/ \E pruneSegments \in BOOLEAN : runUpdateSegments(pruneSegments)
  \/ UpdateSegmentsSucceeds
  \/ UpdateSegmentsFails
  \/ PruneSegmentsSucceeds
  \/ PruneSegmentsFails

SpecUpdate == InitUpdate /\ [][NextUpdate]_vars

\* ---------------------------------------------------------- resetSchema
\* The lengths of the lists FUNCTIONS, TABLES, PROCEDURES and SEED.
NumFunctions == 2
NumTables == 2
NumProcedures == 2
NumSeed == 2

\* export const pipelineNames
pipelineNames == <<"locations", "requests", "purchases">>

\* The tables truncateData truncates, in the order of its Promise.all.
TruncatedTables ==
  <<"cities", "locations", "notifications", "offers", "purchases", "requests",
    "segments", "sessions", "subscriber_segments", "subscribers",
    "subscribers_last_notification">>

\* A statement resetSchema issues: its kind and the position of its object
\* in the list it comes from (0 if it has none).
ResetStmt(kind, obj) == [kind |-> kind, obj |-> obj, status |-> "pending"]

\* A call of the progress callback.
Progress(msg, obj, status) == [msg |-> msg, obj |-> obj, status |-> status]

\* Mutant of ResetAwaited: of statements issued together only the first is
\* awaited.
ResetAwaitedFirst(issued, batch) == IF batch = <<>> THEN {} ELSE {Len(issued) + 1}

\* The statements an await of resetSchema waits for: the one just issued, or
\* all those given to Promise.all.
ResetAwaited(issued, batch) == (Len(issued) + 1)..(Len(issued) + Len(batch))

\* resetSchema calls progress (if it does at this place), issues the
\* statements of batch and awaits them at position pos.
ResetIssue(R, pos, i, messages, batch) ==
  [R EXCEPT !.pc = pos,
            !.i = i,
            !.progress = @ \o messages,
            !.issued = @ \o batch,
            !.awaiting = ResetAwaited(R.issued, batch)]

\* resetSchema runs on from position pos (with loop index i) to its next
\* await, or to its end.
RECURSIVE ResetRun(_, _, _)
ResetRun(R, pos, i) ==
  CASE pos = "start" ->
         IF ~R.resetDataOnly
           THEN ResetIssue(R, "drop_database", 0,
                           <<Progress("Dropping existing schema", 0, "info")>>,
                           <<ResetStmt("DROP DATABASE", 0)>>)
           ELSE ResetRun(R, "data", 0)
    [] pos = "create_database" ->
         ResetIssue(R, "create_database", 0,
                    <<Progress("Creating database", 0, "info")>>,
                    <<ResetStmt("CREATE DATABASE", 0)>>)
    [] pos = "data" ->
         IF R.resetDataOnly
           THEN ResetIssue(R, "stop_pipelines", 0,
                           <<Progress("Resetting data", 0, "info")>>,
                           <<ResetStmt("STOP ALL PIPELINES", 0)>>)
           ELSE ResetRun(R, "functions", 1)
    [] pos = "drop_pipelines" ->
         ResetIssue(R, "drop_pipelines", 0, <<>>,
                    [j \in 1..Len(pipelineNames) |-> ResetStmt("DROP PIPELINE", j)])
    [] pos = "truncate" ->
         ResetIssue(R, "truncate", 0, <<>>,
                    [j \in 1..Len(TruncatedTables) |-> ResetStmt("TRUNCATE TABLE", j)])
    [] pos = "functions" ->
         IF i <= NumFunctions
           THEN ResetIssue(R, "functions", i,
                           <<Progress("Creating function", i, "info")>>,
                           <<ResetStmt("function", i)>>)
           ELSE ResetRun(R, "tables", 1)
    [] pos = "tables" ->
         IF i <= NumTables
           THEN ResetIssue(R, "tables", i,
                           <<Progress("Creating table", i, "info")>>,
                           <<ResetStmt("table", i)>>)
           ELSE ResetRun(R, "procedures", 1)
    [] pos = "procedures" ->
         IF i <= NumProcedures
           THEN ResetIssue(R, "procedures", i,
                           <<Progress("Creating procedure", i, "info")>>,
                           <<ResetStmt("procedure", i)>>)
           ELSE ResetRun(R, "city", 0)
    [] pos = "city" ->
         ResetIssue(R, "city", 0,
                    <<Progress("Creating New York", 0, "info")>>,
                    <<ResetStmt("createCity", 0)>>)
    [] pos = "seed_data" ->
         IF R.includeSeedData
           THEN ResetRun([R EXCEPT !.progress =
                            Append(@, Progress("Creating sample data", 0, "info"))],
                         "seed", 1)
           ELSE ResetRun(R, "end", 0)
    [] pos = "seed" ->
         IF i <= NumSeed
           THEN ResetIssue(R, "seed", i, <<>>, <<ResetStmt("seed", i)>>)
           ELSE ResetRun(R, "end", 0)
    [] pos = "end" ->
         [R EXCEPT !.pc = "resolved", !.i = 0, !.awaiting = {},
                   !.progress = Append(@, Progress("Schema initialized", 0, "success"))]

\* The position resetSchema goes on at after the await at position R.pc.
ResetResume(R) ==
  CASE R.pc = "drop_database" -> ResetRun(R, "create_database", 0)
    [] R.pc = "create_database" -> ResetRun(R, "data", 0)
    [] R.pc = "stop_pipelines" -> ResetRun(R, "drop_pipelines", 0)
    [] R.pc = "drop_pipelines" -> ResetRun(R, "truncate", 0)
    [] R.pc = "truncate" -> ResetRun(R, "functions", 1)
    [] R.pc = "functions" -> ResetRun(R, "functions", R.i + 1)
    [] R.pc = "tables" -> ResetRun(R, "tables", R.i + 1)
    [] R.pc = "procedures" -> ResetRun(R, "procedures", R.i + 1)
    [] R.pc = "city" -> ResetRun(R, "seed_data", 0)
    [] R.pc = "seed" -> ResetRun(R, "seed", R.i + 1)

\* Mutant of ResetRejected: the failure is caught and the call goes on.
ResetRejectedCaught(R) == ResetResume(R)

\* An awaited statement has failed: the await throws, and resetSchema rejects.
ResetRejected(R) == [R EXCEPT !.pc = "rejected", !.awaiting = {}]

\* The caller invokes resetSchema(config, {progress, includeSeedData,
\* resetDataOnly}).
resetSchema(includeSeedData, resetDataOnly) ==
  /\ reset.pc = "idle"
  /\ reset' = ResetRun([reset EXCEPT !.includeSeedData = includeSeedData,
                                     !.resetDataOnly = resetDataOnly],
                       "start", 0)
  /\ UNCHANGED <<offersVars, gen, plans, upd, pipes, schema>>

\* Statement k of resetSchema succeeds; the call goes on when everything it
\* awaits has succeeded.
ResetExecSucceeds(k) ==
  /\ reset.issued[k].status = "pending"
  /\ \E R \in {[reset EXCEPT !.issued[k].status = "ok"]} :
       reset' = IF k \notin reset.awaiting THEN R
                ELSE IF reset.awaiting \ {k} # {} THEN [R EXCEPT !.awaiting = @ \ {k}]
                ELSE ResetResume(R)
  /\ UNCHANGED <<offersVars, gen, plans, upd, pipes, schema>>

\* Statement k of resetSchema fails.
ResetExecFails(k) ==
  /\ reset.issued[k].status = "pending"
  /\ \E R \in {[reset EXCEPT !.issued[k].status = "failed"]} :
       reset' = IF k \in reset.awaiting THEN ResetRejected(R) ELSE R
  /\ UNCHANGED <<offersVars, gen, plans, upd, pipes, schema>>

InitReset ==
  /\ input = [c \in Calls |-> NoInput]
  /\ waitsFor = [c \in Calls |-> 0]
  /\ pc = [c \in Calls |-> "absent"]
  /\ InitLocals
  /\ gen = NoGenerator
  /\ plans = NoPlans
  /\ upd = NoUpdate
  /\ reset = [NoReset EXCEPT !.pc = "idle"]
  /\ pipes = NoPipes
  /\ schema = NoSchema

NextReset ==
  \/ \E includeSeedData, resetDataOnly \in BOOLEAN :
       resetSchema(includeSeedData, resetDataOnly)
  \/ \E k \in 1..Len(reset.issued) : ResetExecSucceeds(k)
  \/ \E k \in 1..Len(reset.issued) : ResetExecFails(k)

SpecReset == InitReset /\ [][NextReset]_vars

\* ------------------------------------------------ ensurePipelinesExist
\* The values of the needsUpdate column: the comparison is true, false or,
\* for a pipeline without a connection string, NULL.
NeedsUpdateValues == {"true", "false", "null"}

\* A row of the status query.
StatusRow(name, needsUpdate) == [pipelineName |-> name, needsUpdate |-> needsUpdate]

\* The lists of n rows with different pipeline names, the names taken from
\* the set names.
RECURSIVE RowLists(_, _)
RowLists(names, n) ==
  IF n = 0 THEN {<<>>}
  ELSE UNION {{<<StatusRow(name, v)>> \o rest : rest \in RowLists(names \ {name}, n - 1)} :
                name \in names, v \in NeedsUpdateValues}

\* What the status query can return: the query asks for the three pipelines
\* of the database, so a row for each that exists, in any order.
StatusRows ==
  UNION {RowLists({pipelineNames[j] : j \in 1..Len(pipelineNames)}, n) :
           n \in 0..Len(pipelineNames)}

\* status.find((x) => x.pipelineName === pipelineName): the position of the
\* first such row, 0 for undefined.
Find(rows, pipelineName) ==
  IF \E m \in 1..Len(rows) : rows[m].pipelineName = pipelineName
    THEN CHOOSE m \in 1..Len(rows) :
           /\ rows[m].pipelineName = pipelineName
           /\ \A m2 \in 1..(m - 1) : rows[m2].pipelineName # pipelineName
    ELSE 0

\* row?.needsUpdate ?? true
NeedsUpdateOf(rows, m) ==
  LET v == IF m = 0 THEN "undefined" ELSE rows[m].needsUpdate
  IN  IF v \in {"undefined", "null"} THEN "true" ELSE v

\* Mutant of pipelineStatus: the result has an entry per returned row.
pipelineStatusOfRows(rows) ==
  [m \in 1..Len(rows) |->
     [pipelineName |-> rows[m].pipelineName, needsUpdate |-> NeedsUpdateOf(rows, m)]]

\* pipelineStatus, from the rows of its query: pipelineNames.map(...)
pipelineStatus(rows) ==
  [j \in 1..Len(pipelineNames) |->
     [pipelineName |-> pipelineNames[j],
      needsUpdate |-> NeedsUpdateOf(rows, Find(rows, pipelineNames[j]))]]

\* .filter((p) => p.needsUpdate): the positions of the pipelines kept.
Filtered(pipelines) ==
  {j \in 1..Len(pipelines) : pipelines[j].needsUpdate = "true"}

\* Mutant of PipelineChain: the pipeline is started before its offsets are
\* set.
PipelineChainStartFirst == <<"CREATE PIPELINE", "START PIPELINE", "ALTER PIPELINE">>

\* The statements the async function of a pipeline executes, one after the
\* other: getPipelineSQL's statement, ALTER PIPELINE ... SET OFFSETS EARLIEST
\* DROP ORPHAN FILES, START PIPELINE IF NOT RUNNING.
PipelineChain == <<"CREATE PIPELINE", "ALTER PIPELINE", "START PIPELINE">>

\* A query or statement of ensurePipelinesExist (pipeline 0: a query).
PipeStmt(kind, j) == [kind |-> kind, pipeline |-> j, status |-> "pending"]

\* The statements of pipeline j in the log, as positions in issue order.
ChainOf(log, j) ==
  LET S == {k \in 1..Len(log) : log[k].pipeline = j}
  IN  [m \in 1..Cardinality(S) |-> CHOOSE k \in S : Cardinality({k2 \in S : k2 < k}) = m - 1]

\* The async function of pipeline j has returned.
ChainDone(log, j) ==
  /\ Len(ChainOf(log, j)) = Len(PipelineChain)
  /\ \A k \in 1..Len(log) : log[k].pipeline = j => log[k].status = "ok"

\* The caller invokes ensurePipelinesExist: pipelineStatus issues its query.
ensurePipelinesExist ==
  /\ pipes.pc = "idle"
  /\ pipes' = [pipes EXCEPT !.pc = "await_status",
                            !.log = <<PipeStmt("pipelineStatus", 0)>>]
  /\ UNCHANGED <<offersVars, gen, plans, upd, reset, schema>>

\* The status query returns rows: pipelineStatus returns its three entries,
\* and countPartitions issues its query.
StatusQueryReturns(rows) ==
  /\ pipes.pc = "await_status"
  /\ pipes' = [pipes EXCEPT !.pc = "await_count",
                            !.rows = rows,
                            !.pipelines = pipelineStatus(rows),
                            !.log = Append([@ EXCEPT ![1].status = "ok"],
                                           PipeStmt("countPartitions", 0))]
  /\ UNCHANGED <<offersVars, gen, plans, upd, reset, schema>>

\* The status query fails: ensurePipelinesExist rejects.
StatusQueryFails ==
  /\ pipes.pc = "await_status"
  /\ pipes' = [pipes EXCEPT !.pc = "rejected", !.log[1].status = "failed"]
  /\ UNCHANGED <<offersVars, gen, plans, upd, reset, schema>>

\* countPartitions returns: the async function of every pipeline that needs
\* an update runs up to its first await, in the order of the list; with no
\* such pipeline Promise.all([]) fulfils and the call returns.
CountReturns ==
  /\ pipes.pc = "await_count"
  /\ LET todo == Filtered(pipes.pipelines)
         first == [m \in 1..Cardinality(todo) |->
                     PipeStmt(PipelineChain[1],
                              CHOOSE j \in todo : Cardinality({j2 \in todo : j2 < j}) = m - 1)]
     IN  pipes' = [pipes EXCEPT !.pc = IF todo = {} THEN "resolved" ELSE "await_all",
                               !.log = [@ EXCEPT ![2].status = "ok"] \o first]
  /\ UNCHANGED <<offersVars, gen, plans, upd, reset, schema>>

\* countPartitions fails: ensurePipelinesExist rejects.
CountFails ==
  /\ pipes.pc = "await_count"
  /\ pipes' = [pipes EXCEPT !.pc = "rejected", !.log[2].status = "failed"]
  /\ UNCHANGED <<offersVars, gen, plans, upd, reset, schema>>

\* Statement k of a pipeline succeeds: the pipeline's function executes its
\* next statement, or returns; when all have returned, Promise.all fulfils.
PipeExecSucceeds(k) ==
  /\ pipes.log[k].pipeline > 0
  /\ pipes.log[k].status = "pending"
  /\ LET j == pipes.log[k].pipeline
         done == Len(ChainOf(pipes.log, j))
         log == [pipes.log EXCEPT ![k].status = "ok"]
     IN  IF done < Len(PipelineChain)
           THEN pipes' = [pipes EXCEPT !.log = Append(log, PipeStmt(PipelineChain[done + 1], j))]
           ELSE pipes' = [pipes EXCEPT
                            !.log = log,
                            !.pc = IF /\ pipes.pc = "await_all"
                                      /\ \A j2 \in Filtered(pipes.pipelines) : ChainDone(log, j2)
                                     THEN "resolved" ELSE @]
  /\ UNCHANGED <<offersVars, gen, plans, upd, reset, schema>>

\* Statement k of a pipeline fails: the pipeline's function throws, and
\* Promise.all rejects if it has not yet; the functions of the other
\* pipelines go on.
PipeExecFails(k) ==
  /\ pipes.log[k].pipeline > 0
  /\ pipes.log[k].status = "pending"
  /\ pipes' = [pipes EXCEPT !.log[k].status = "failed",
                            !.pc = IF @ = "await_all" THEN "rejected" ELSE @]
  /\ UNCHANGED <<offersVars, gen, plans, upd, reset, schema>>

InitPipes ==
  /\ input = [c \in Calls |-> NoInput]
  /\ waitsFor = [c \in Calls |-> 0]
  /\ pc = [c \in Calls |-> "absent"]
  /\ InitLocals
  /\ gen = NoGenerator
  /\ plans = NoPlans
  /\ upd = NoUpdate
  /\ reset = NoReset
  /\ pipes = [NoPipes EXCEPT !.pc = "idle"]
  /\ schema = NoSchema

NextPipes ==
  \/ ensurePipelinesExist
  \/ \E rows \in StatusRows : StatusQueryReturns(rows)
  \/ StatusQueryFails
  \/ CountReturns
  \/ CountFails
  \/ \E k \in 1..Len(pipes.log) : PipeExecSucceeds(k)
  \/ \E k \in 1..Len(pipes.log) : PipeExecFails(k)

SpecPipes == InitPipes /\ [][NextPipes]_vars

\* ------------------------------------------------------------ hasSchema
\* The names of the objects the schema is expected to have: the lists
\* TABLES, PROCEDURES and FUNCTIONS (no name is in two of them).
TABLES == <<"cities", "offers">>
PROCEDURES == <<"update_segments", "prune_segments">>
FUNCTIONS == <<"encode_open_location_code">>

\* What the query of schemaObjects can return, as tuples (type, name): the
\* expected objects under their own kind, a table with the name of an
\* expected procedure, a table nobody expects, and a routine that is neither
\* a procedure nor a function, for which the CASE gives NULL.
SchemaRowUniverse ==
  {<<"tables", TABLES[j]>> : j \in 1..Len(TABLES)}
    \cup {<<"procedures", PROCEDURES[j]>> : j \in 1..Len(PROCEDURES)}
    \cup {<<"functions", FUNCTIONS[j]>> : j \in 1..Len(FUNCTIONS)}
    \cup {<<"tables", PROCEDURES[1]>>, <<"tables", "sessions">>, <<"null", "approx_count">>}

\* The errors the query can fail with: two SQLErrors schemaObjects knows,
\* another SQLError, and an error that is no SQLError.
SchemaErrors ==
  {"SQLError: unknown database", "SQLError: database recovering",
   "SQLError: access denied", "Error: network"}

\* Mutant of Swallowed: every error of the query is caught.
SwallowedAll(e) == TRUE

\* e instanceof SQLError && (e.isUnknownDatabase() || e.isDatabaseRecovering())
Swallowed(e) == e \in {"SQLError: unknown database", "SQLError: database recovering"}

\* .reduce((acc, [type, name]) => { acc[type].push(name); return acc; }, objs):
\* the names of the rows of a type.
NamesOfType(rows, type) == {r[2] : r \in {r2 \in rows : r2[1] = type}}

\* acc[type] is undefined for a type that is no key of objs, and push throws.
ReduceThrows(rows) == \E r \in rows : r[1] \notin {"tables", "procedures", "functions"}

\* The entries schemaObjects builds: [name, name && list.includes(name)] for
\* the tables, then the procedures, then the functions.
SchemaEntries(rows) ==
  [j \in 1..Len(TABLES) |->
     <<TABLES[j], TABLES[j] # "" /\ TABLES[j] \in NamesOfType(rows, "tables")>>]
  \o [j \in 1..Len(PROCEDURES) |->
     <<PROCEDURES[j], PROCEDURES[j] # "" /\ PROCEDURES[j] \in NamesOfType(rows, "procedures")>>]
  \o [j \in 1..Len(FUNCTIONS) |->
     <<FUNCTIONS[j], FUNCTIONS[j] # "" /\ FUNCTIONS[j] \in NamesOfType(rows, "functions")>>]

\* Object.fromEntries: of several entries with one key the last one stays.
FromEntries(entries) ==
  [name \in {entries[j][1] : j \in 1..Len(entries)} |->
     entries[CHOOSE j \in 1..Len(entries) :
               /\ entries[j][1] = name
               /\ \A j2 \in (j + 1)..Len(entries) : entries[j2][1] # name][2]]

\* schemaObjects, from the rows of its query (none after a caught error).
schemaObjects(rows) == FromEntries(SchemaEntries(rows))

\* Object.values(objects).every((x) => x)
EveryValue(objects) == \A name \in DOMAIN objects : objects[name]

\* The caller invokes hasSchema: schemaObjects issues its query.
hasSchema ==
  /\ schema.pc = "idle"
  /\ schema' = [schema EXCEPT !.pc = "await_query"]
  /\ UNCHANGED <<offersVars, gen, plans, upd, reset, pipes>>

\* The query returns rows: they are sorted into the three lists, which
\* throws for a row of no known type; schemaObjects returns its object and
\* hasSchema its answer.
SchemaQueryReturns(rows) ==
  /\ schema.pc = "await_query"
  /\ schema' = IF ReduceThrows(rows)
                 THEN [schema EXCEPT !.pc = "threw", !.rows = rows, !.thrown = "TypeError"]
                 ELSE [schema EXCEPT !.pc = "returned",
                                     !.rows = rows,
                                     !.objects = schemaObjects(rows),
                                     !.result = EveryValue(schemaObjects(rows))]
  /\ UNCHANGED <<offersVars, gen, plans, upd, reset, pipes>>

\* The query fails with e: a caught error leaves the three lists empty, any
\* other error is thrown on, through schemaObjects and hasSchema.
SchemaQueryFails(e) ==
  /\ schema.pc = "await_query"
  /\ schema' = IF Swallowed(e)
                 THEN [schema EXCEPT !.pc = "returned",
                                     !.error = e,
                                     !.objects = schemaObjects({}),
                                     !.result = EveryValue(schemaObjects({}))]
                 ELSE [schema EXCEPT !.pc = "threw", !.error = e, !.thrown = e]
  /\ UNCHANGED <<offersVars, gen, plans, upd, reset, pipes>>

InitSchema ==
  /\ input = [c \in Calls |-> NoInput]
  /\ waitsFor = [c \in Calls |-> 0]
  /\ pc = [c \in Calls |-> "absent"]
  /\ InitLocals
  /\ gen = NoGenerator
  /\ plans = NoPlans
  /\ upd = NoUpdate
  /\ reset = NoReset
  /\ pipes = NoPipes
  /\ schema = [NoSchema EXCEPT !.pc = "idle"]

NextSchema ==
  \/ hasSchema
  \/ \E rows \in SUBSET SchemaRowUniverse : SchemaQueryReturns(rows)
  \/ \E e \in SchemaErrors : SchemaQueryFails(e)

SpecSchema == InitSchema /\ [][NextSchema]_vars

\* ------------------------------------------------- reading the statements
\* The statements call c issued on a table, as indices of stmts in issue order.
IssuedBy(c, table) ==
  LET S == {k \in 1..Len(stmts) : stmts[k].call = c /\ stmts[k].sql.table = table}
  IN  [j \in 1..Cardinality(S) |-> CHOOSE k \in S : Cardinality({m \in S : m < k}) = j - 1]

\* The number of flushes call c has started.
NumFlushes(c) == Len(IssuedBy(c, "offers"))

RowsOf(k) == StatementRows(stmts[k].sql, stmts[k].params)

\* The offers the inputs are made of, and the row of each (computed once).
InputOfferSet ==
  {InputOffer(p, i) : p \in (0..(NumPatterns - 1)) \cup {EmptyPattern},
                      i \in 1..(13 * Len(SegmentLists))}

RowOfOffer == [o \in InputOfferSet |-> OfferRow(DEFAULT_CUSTOMER_ID, o)]

\* The rows of input positions from..to of call c, in input order.
InputRows(c, from, to) ==
  [j \in 1..(to - from + 1) |-> RowOfOffer[InputOffer(input[c].p, from + j - 1)]]

Min(a, b) == IF a < b THEN a ELSE b

CeilDiv(a, b) == (a + b - 1) \div b

\* The positions of the input the k-th batch of call c covers.
BatchFirst(k) == MAX_OFFERS_PER_BATCH * (k - 1) + 1
BatchLast(c, k) == Min(MAX_OFFERS_PER_BATCH * k, input[c].n)

Range(seq) == {seq[i] : i \in 1..Len(seq)}

\* The two statements of the k-th flush of call c.
OffersStmt(c, k) == IssuedBy(c, "offers")[k]
SegmentsStmt(c, k) == IssuedBy(c, "segments")[k]

Pending(k) == stmts[k].status = "pending"
Committed(k) == stmts[k].status = "ok"
Failed(k) == stmts[k].status = "failed"

\* The rows of statement k are in the relation it writes.
RowsInRelation(k) ==
  IF stmts[k].sql.table = "offers"
    THEN Range(RowsOf(k)) \subseteq Range(offersRel)
    ELSE Range(RowsOf(k)) \subseteq segmentsRel

\* The k-th flush of call c has ended with its Promise.all fulfilled: the call
\* awaits neither of its writes and was not rejected by it.
FlushFulfilled(c, k) ==
  /\ awaiting[c] \cap {OffersStmt(c, k), SegmentsStmt(c, k)} = {}
  /\ ~(pc[c] = "rejected" /\ k = NumFlushes(c))

\* ------------------------------------------------------------------ C1
\* C1: a createOffers call over N offers that meets no write error has
\* performed exactly ceil(N / 500) flushes when it resolves; for N = 0 it
\* has performed none and has issued no statement at all.
C1_FlushCount ==
  \A c \in Calls :
    pc[c] = "resolved" =>
      /\ NumFlushes(c) = CeilDiv(input[c].n, MAX_OFFERS_PER_BATCH)
      /\ Len(IssuedBy(c, "segments")) = NumFlushes(c)
      /\ input[c].n = 0 => \A k \in 1..Len(stmts) : stmts[k].call # c

C1_Witness ==
  /\ pc[1] = "resolved"
  /\ input[1].n = MaxBatches * MAX_OFFERS_PER_BATCH + TailOffers
  /\ NumFlushes(1) = MaxBatches + 1

\* ------------------------------------------------------------------ C2
\* C2: when createOffers has resolved, the rows of its executed offers
\* statements, taken in issue order, are exactly the rows of the input offers
\* in input order (none lost, none written twice), and the offers relation
\* holds as many rows as the input has offers.
RECURSIVE ConcatRows(_, _)
ConcatRows(ks, j) ==
  IF j > Len(ks) THEN <<>> ELSE RowsOf(ks[j]) \o ConcatRows(ks, j + 1)

C2_EveryOfferWrittenOnce ==
  \A c \in Calls :
    pc[c] = "resolved" =>
      /\ \A k \in 1..Len(stmts) : stmts[k].call = c => stmts[k].status = "ok"
      /\ ConcatRows(IssuedBy(c, "offers"), 1) = InputRows(c, 1, input[c].n)
      /\ Len(offersRel) = input[c].n

C2_Witness ==
  /\ pc[1] = "resolved"
  /\ input[1].n = MaxBatches * MAX_OFFERS_PER_BATCH + 1
  /\ Len(offersRel) = input[1].n

\* ------------------------------------------------------------------ C3
\* C3: the k-th flush of a call over N offers carries exactly the offers at
\* input positions 500(k-1)+1 .. min(500k, N), in input order; so every flush
\* but the last carries 500 rows and the last carries 1..500.
C3_BatchContents ==
  \A c \in Calls :
      \A k \in 1..NumFlushes(c) :
        LET rows == RowsOf(IssuedBy(c, "offers")[k])
        IN  /\ rows = InputRows(c, BatchFirst(k), BatchLast(c, k))
            /\ Len(rows) >= 1
            /\ Len(rows) <= MAX_OFFERS_PER_BATCH
            /\ k < NumFlushes(c) => Len(rows) = MAX_OFFERS_PER_BATCH

C3_Witness ==
  /\ pc[1] = "await_final"
  /\ NumFlushes(1) = MaxBatches + 1
  /\ Len(RowsOf(IssuedBy(1, "offers")[MaxBatches + 1])) = TailOffers
  /\ Len(RowsOf(IssuedBy(1, "offers")[1])) = MAX_OFFERS_PER_BATCH
\* ------------------------------------------------------------------ C4
\* C4, as stated: for every flush, successful or failed, once both of its
\* writes have ended the offers rows are committed if and only if the segments
\* rows are.
C4_Original ==
  \A c \in Calls : \A k \in 1..NumFlushes(c) :
    (~Pending(OffersStmt(c, k)) /\ ~Pending(SegmentsStmt(c, k)))
      => (Committed(OffersStmt(c, k)) <=> Committed(SegmentsStmt(c, k)))

\* C4, amended: for every flush that succeeds (the point where createOffers
\* goes on after it), the offers rows and the segments rows of the flush are
\* both committed and are in their relations.
C4_SuccessfulFlushCommitsBoth ==
  \A c \in Calls : \A k \in 1..NumFlushes(c) :
    FlushFulfilled(c, k) =>
      /\ Committed(OffersStmt(c, k))
      /\ Committed(SegmentsStmt(c, k))
      /\ RowsInRelation(OffersStmt(c, k))
      /\ RowsInRelation(SegmentsStmt(c, k))

C4_Witness ==
  /\ NumFlushes(1) = 2
  /\ FlushFulfilled(1, 1)
  /\ Committed(OffersStmt(1, 1))
  /\ Committed(SegmentsStmt(1, 1))
  /\ pc[1] = "await_final"

\* ------------------------------------------------------------------ C5
\* C5: every segment of an offer has its row in the segments statement of the
\* flush whose offers statement carries the offer's row, and that segments
\* statement is committed, its rows in the segments relation, by the time the
\* call has gone on after that flush.
C5_SegmentsWithTheirOffers ==
  \A c \in Calls : \A k \in 1..NumFlushes(c) :
    LET offerRows == RowsOf(OffersStmt(c, k))
        segmentRows == Range(RowsOf(SegmentsStmt(c, k)))
    IN  /\ \A i \in BatchFirst(k)..BatchLast(c, k) :
             LET offer == InputOffer(input[c].p, i)
             IN  /\ offerRows[i - BatchFirst(k) + 1] = RowOfOffer[offer]
                 /\ \A j \in 1..Len(offer.segments) :
                      SegmentRow(offer.segments[j]) \in segmentRows
        /\ (k < NumFlushes(c) \/ pc[c] = "resolved") =>
             /\ Committed(SegmentsStmt(c, k))
             /\ segmentRows \subseteq segmentsRel

C5_Witness ==
  /\ NumFlushes(1) = MaxBatches + 1
  /\ pc[1] = "await_final"
  /\ Committed(SegmentsStmt(1, MaxBatches))
  /\ Pending(SegmentsStmt(1, MaxBatches + 1))
  /\ Committed(OffersStmt(1, MaxBatches + 1))

\* ------------------------------------------------------------------ C6
\* C6, as stated: the call neither goes on nor settles (resolves or rejects)
\* while a write of its current flush is outstanding.
C6_Original ==
  \A c \in Calls :
    /\ \A k \in 1..Len(stmts) :
         (stmts[k].call = c /\ Pending(k)) =>
           k \in {OffersStmt(c, NumFlushes(c)), SegmentsStmt(c, NumFlushes(c))}
    /\ Settled(c) => \A k \in 1..Len(stmts) : stmts[k].call = c => ~Pending(k)

\* C6, amended: the two writes of a flush are issued together, and the call
\* neither appends the next offer, nor starts another flush, nor resolves
\* while one of them is outstanding: an outstanding write always belongs to
\* the call's latest flush, and a resolved call has none.  (A call that one
\* write has rejected may have the other still outstanding.)
C6_NoProgressWhileOutstanding ==
  \A c \in Calls :
    /\ \A k \in 1..NumFlushes(c) : SegmentsStmt(c, k) = OffersStmt(c, k) + 1
    /\ \A k \in 1..Len(stmts) :
         (stmts[k].call = c /\ Pending(k)) =>
           k \in {OffersStmt(c, NumFlushes(c)), SegmentsStmt(c, NumFlushes(c))}
    /\ pc[c] = "resolved" => \A k \in 1..Len(stmts) : stmts[k].call = c => ~Pending(k)
    /\ pc[c] \in {"await_loop", "await_final"} =>
         /\ awaiting[c] # {}
         /\ \A k \in awaiting[c] : Pending(k)

\* One write of the first flush has succeeded, the other is outstanding, and
\* the call, with more input to append, is still suspended.
C6_Witness ==
  /\ pc[1] = "await_loop"
  /\ input[1].n > MAX_OFFERS_PER_BATCH
  /\ idx[1] = MAX_OFFERS_PER_BATCH
  /\ Committed(SegmentsStmt(1, 1))
  /\ Pending(OffersStmt(1, 1))

\* ------------------------------------------------------------------ C7
\* C7: a call with a failed write is rejected, with the error of a failed
\* write of its own, unchanged; a call resolves only if every write of every
\* one of its flushes succeeded.
C7_ErrorsPropagate ==
  \A c \in Calls :
    /\ (\E k \in 1..Len(stmts) : stmts[k].call = c /\ Failed(k)) => pc[c] = "rejected"
    /\ pc[c] = "rejected" =>
         \E k \in {OffersStmt(c, NumFlushes(c)), SegmentsStmt(c, NumFlushes(c))} :
           /\ Failed(k)
           /\ result[c] = stmts[k].error
           /\ result[c] \in Errors
    /\ pc[c] = "resolved" =>
         /\ result[c] = "none"
         /\ \A k \in 1..Len(stmts) : stmts[k].call = c => Committed(k)

\* The segments write of the second flush has failed, its offers write has
\* succeeded, and the call is rejected with the segments write's error.
C7_Witness ==
  /\ pc[1] = "rejected"
  /\ NumFlushes(1) = 2
  /\ Failed(SegmentsStmt(1, 2))
  /\ Committed(OffersStmt(1, 2))
  /\ result[1] = stmts[SegmentsStmt(1, 2)].error

\* ------------------------------------------------------------------ C8
\* Exactly one of the two writes of the k-th flush of c failed, the other
\* succeeded.
PartialFailure(c, k) ==
  \/ Failed(OffersStmt(c, k)) /\ Committed(SegmentsStmt(c, k))
  \/ Committed(OffersStmt(c, k)) /\ Failed(SegmentsStmt(c, k))

\* C8: when exactly one write of a flush failed and the other succeeded, the
\* call is rejected with the failed write's error, the rows of the write that
\* succeeded are in their relation, and the call has issued nothing after the
\* two writes of that flush (no rollback, no compensating statement).
C8_PartialFailureKeepsRows ==
  \A c \in Calls : \A k \in 1..NumFlushes(c) :
    PartialFailure(c, k) =>
      /\ pc[c] = "rejected"
      /\ \E j \in {OffersStmt(c, k), SegmentsStmt(c, k)} :
           Failed(j) /\ result[c] = stmts[j].error
      /\ \A j \in {OffersStmt(c, k), SegmentsStmt(c, k)} :
           Committed(j) => RowsInRelation(j)
      /\ k = NumFlushes(c)
      /\ \A j \in 1..Len(stmts) :
           stmts[j].call = c => j <= SegmentsStmt(c, k)

C8_Witness ==
  /\ NumFlushes(1) = 1
  /\ Failed(OffersStmt(1, 1))
  /\ Committed(SegmentsStmt(1, 1))
  /\ segmentsRel # {}
  /\ offersRel = <<>>
  /\ pc[1] = "rejected"

\* ------------------------------------------------------------------ C9
\* The number of statements call c has issued, in a log.
IssuedCount(log, c) == Cardinality({k \in 1..Len(log) : log[k].call = c})

\* C9: once a write of a call has failed, no step makes that call issue a
\* statement: neither a retry of the failed batch nor a write for later
\* offers.
C9_NoStatementAfterFailure ==
  [][\A c \in Calls :
       (\E k \in 1..Len(stmts) : stmts[k].call = c /\ Failed(k))
         => IssuedCount(stmts', c) = IssuedCount(stmts, c)]_vars

\* The first flush of the longest input failed: both of its writes have ended
\* and the offers after the first batch were never written.
C9_Witness ==
  /\ pc[1] = "rejected"
  /\ input[1].n = MaxBatches * MAX_OFFERS_PER_BATCH + TailOffers
  /\ NumFlushes(1) = 1
  /\ Failed(OffersStmt(1, 1))
  /\ Committed(SegmentsStmt(1, 1))
\* ----------------------------------------------------------------- C10
\* The segments rows of the offers of call c.
InputSegmentRows(c) ==
  UNION {{SegmentRow(InputOffer(input[c].p, i).segments[j]) :
            j \in 1..Len(InputOffer(input[c].p, i).segments)} : i \in 1..input[c].n}

\* C10: once the same batch has been run a second time, successfully, and
\* every write has ended, the offers relation and the segments relation are
\* in the state one fully successful execution of the flush leaves: one row
\* per input offer, one row per segment.
C10_RerunIsIdempotent ==
  (/\ Settled(1)
   /\ pc[2] = "resolved"
   /\ \A k \in 1..Len(stmts) : ~Pending(k))
    => /\ Len(offersRel) = input[2].n
       /\ Range(offersRel) = Range(InputRows(2, 1, input[2].n))
       /\ segmentsRel = InputSegmentRows(2)
\* ----------------------------------------------------------------- C11
\* The segments statements issued so far, by any call.
SegmentsStmts == {k \in 1..Len(stmts) : stmts[k].sql.table = "segments"}

\* hash(interval + "-" + kind + "-" + value), computed from the three strings.
HashOfTriple(interval, kind, value) ==
  stringHash(CharCodes[interval] \o <<45>> \o CharCodes[kind] \o <<45>> \o CharCodes[value])

TimesTenPlus(n, d) ==
  LET lo == (n[2] * 10) + d
  IN  <<(n[1] * 10) + (lo \div Word16), lo % Word16>>

RECURSIVE ParseFrom(_, _, _, _)
ParseFrom(chars, i, cur, acc) ==
  IF i > Len(chars) THEN acc
  ELSE IF chars[i] = 93 THEN (IF cur = <<>> THEN acc ELSE Append(acc, cur))
  ELSE IF chars[i] = 44 THEN ParseFrom(chars, i + 1, <<>>, Append(acc, cur))
  ELSE ParseFrom(chars, i + 1,
                 TimesTenPlus(IF cur = <<>> THEN <<0, 0>> ELSE cur, chars[i] - 48), acc)

JSONParse(chars) == ParseFrom(chars, 2, <<>>, <<>>)

\* JSON.parse of every segment_ids value the offers rows carry (each parsed once).
ParsedSegmentIds ==
  [t \in {RowOfOffer[o][3] : o \in InputOfferSet} |-> JSONParse(t)]

\* C12: in every offers statement, the segment_ids value of the row of an
\* offer parses to the list of segmentId(s) over the offer's segments, in the
\* offer's order and of the same length (a segment named twice gives its id
\* twice), and each of these ids is the id of a row of the segments statement
\* of the same flush.
C12_SegmentIdsRoundTrip ==
  \A c \in Calls : \A k \in 1..NumFlushes(c) :
    \A segIds \in {{r[1] : r \in Range(RowsOf(SegmentsStmt(c, k)))}} :
    \A offersStmt \in {OffersStmt(c, k)} :
      \A i \in BatchFirst(k)..BatchLast(c, k) :
        LET offer == InputOffer(input[c].p, i)
            parsed == ParsedSegmentIds[RowsOf(offersStmt)[i - BatchFirst(k) + 1][3]]
        IN  /\ Len(parsed) = Len(offer.segments)
            /\ \A j \in 1..Len(offer.segments) :
                 /\ parsed[j] = segmentId(offer.segments[j])
                 /\ parsed[j] \in segIds

\* The third offer of the flush names one segment twice, and its segment_ids
\* value parses to that segment's id, twice; the second offer has one segment.
C12_Witness ==
  /\ input[1].p = 1
  /\ NumFlushes(1) = 1
  /\ Len(RowsOf(OffersStmt(1, 1))) = 3
  /\ InputOffer(1, 3).segments = <<S3, S3>>
  /\ JSONParse(RowsOf(OffersStmt(1, 1))[3][3]) = <<segmentId(S3), segmentId(S3)>>
  /\ JSONParse(RowsOf(OffersStmt(1, 1))[2][3]) = <<segmentId(S1)>>
\* ----------------------------------------------------------------- C13
\* The segments of the offers at input positions from..to of call c, one
\* after the other.
RECURSIVE BatchSegments(_, _, _)
BatchSegments(c, from, to) ==
  IF from > to THEN <<>>
  ELSE IF from = to THEN InputOffer(input[c].p, from).segments
  ELSE BatchSegments(c, from, (from + to) \div 2) \o
       BatchSegments(c, ((from + to) \div 2) + 1, to)

\* C13, as stated: the segments statement of a flush has a row for every
\* segment its offers reference, and no id in two rows (a segment referenced
\* twice is written once).
C13_Original ==
  \A c \in Calls : \A k \in 1..NumFlushes(c) :
    LET rows == RowsOf(SegmentsStmt(c, k))
        segs == BatchSegments(c, BatchFirst(k), BatchLast(c, k))
    IN  /\ \A i \in 1..Len(segs) : SegmentRow(segs[i]) \in Range(rows)
        /\ \A i, j \in 1..Len(rows) : rows[i][1] = rows[j][1] => i = j

\* C13, amended: the segments statement of a flush carries one row per
\* reference, in the order of the references (a segment two offers of the
\* batch reference has two rows); once the write has succeeded, the segments
\* relation holds every referenced segment exactly once.
C13_OneRowPerReference ==
  \A c \in Calls : \A k \in 1..NumFlushes(c) :
    LET rows == RowsOf(SegmentsStmt(c, k))
        segs == BatchSegments(c, BatchFirst(k), BatchLast(c, k))
    IN  /\ rows = [i \in 1..Len(segs) |-> SegmentRow(segs[i])]
        /\ Committed(SegmentsStmt(c, k)) =>
             \A i \in 1..Len(segs) :
               {r \in segmentsRel : r[1] = segmentId(segs[i])} = {SegmentRow(segs[i])}

\* Offers [S1, S2] and [S2, S3] in one batch: the statement has S2's row
\* twice, the write has succeeded and the relation holds the three segments.
C13_Witness ==
  /\ input[1] = [n |-> 2, p |-> 0]
  /\ NumFlushes(1) = 1
  /\ RowsOf(SegmentsStmt(1, 1)) =
       <<SegmentRow(S1), SegmentRow(S2), SegmentRow(S2), SegmentRow(S3)>>
  /\ Committed(SegmentsStmt(1, 1))
  /\ segmentsRel = {SegmentRow(S1), SegmentRow(S2), SegmentRow(S3)}
\* ----------------------------------------------------------------- C14
\* The segment a row describes: its interval, kind and value.
SegmentOfRow(r) == <<r[2], r[3], r[4]>>

\* C14: whenever a segments write succeeds, in whichever call or flush, the
\* segments relation afterwards holds exactly one row per segment id written
\* so far and no two rows for one segment; and if every segment of the write
\* was already in the relation, the write leaves the relation as it was.
C14_SegmentUpsertIsIdempotent ==
  [][\A k \in 1..Len(stmts) :
       (stmts[k].sql.table = "segments" /\ Pending(k) /\ stmts'[k].status = "ok") =>
         LET rows == Range(RowsOf(k))
         IN  /\ rows \subseteq segmentsRel'
             /\ {r[1] : r \in segmentsRel'} = {r[1] : r \in segmentsRel \cup rows}
             /\ \A r1, r2 \in segmentsRel' :
                  (r1[1] = r2[1] \/ SegmentOfRow(r1) = SegmentOfRow(r2)) => r1 = r2
             /\ {SegmentOfRow(r) : r \in rows} \subseteq {SegmentOfRow(r) : r \in segmentsRel}
                  => segmentsRel' = segmentsRel]_vars

\* The second call has written, successfully, the segments the first call
\* had written, and the relation holds each of them once.
C14_Witness ==
  /\ input[1].n = MaxRerunOffers
  /\ NumFlushes(1) = 1
  /\ NumFlushes(2) = 1
  /\ Committed(SegmentsStmt(1, 1))
  /\ Committed(SegmentsStmt(2, 1))
  /\ RowsOf(SegmentsStmt(1, 1)) = RowsOf(SegmentsStmt(2, 1))
  /\ segmentsRel = Range(RowsOf(SegmentsStmt(1, 1)))
  /\ Cardinality(segmentsRel) < Len(RowsOf(SegmentsStmt(1, 1)))
\* ----------------------------------------------------------------- C15
\* The inputs of the calls that run concurrently.
ConcurrentCallInputs == UNION {{in[c] : c \in Calls} : in \in ConcurrentInputs}

\* The segments of the offers at positions from..to of the input of pattern p.
RECURSIVE SegmentsOfInput(_, _, _)
SegmentsOfInput(p, from, to) ==
  IF from > to THEN <<>>
  ELSE IF from = to THEN InputOffer(p, from).segments
  ELSE SegmentsOfInput(p, from, (from + to) \div 2) \o
       SegmentsOfInput(p, ((from + to) \div 2) + 1, to)

\* The values of a list of rows of w columns, row after row.
FlattenRows(rows, w) ==
  [m \in 1..(Len(rows) * w) |-> rows[((m - 1) \div w) + 1][((m - 1) % w) + 1]]

\* The parameters of the two statements of the k-th flush of a call over input
\* in that runs alone: the rows of input positions 500(k-1)+1 .. min(500k, N)
\* and the rows of their segments.  Computed once per input.
AloneFlushes ==
  [in \in ConcurrentCallInputs |->
     [k \in 1..CeilDiv(in.n, MAX_OFFERS_PER_BATCH) |->
        LET from == BatchFirst(k)
            to == Min(MAX_OFFERS_PER_BATCH * k, in.n)
            segs == SegmentsOfInput(in.p, from, to)
        IN  [offers |-> FlattenRows([j \in 1..(to - from + 1) |->
                                       RowOfOffer[InputOffer(in.p, from + j - 1)]],
                                    Len(OffersColumns)),
             segments |-> FlattenRows([i \in 1..Len(segs) |-> SegmentRow(segs[i])],
                                      Len(SegmentsColumns))]]]

\* C15: when two createOffers calls run interleaved at their awaits, the
\* k-th flush of each call carries exactly the rows of that call's own input
\* positions 500(k-1)+1 .. min(500k, N), offers and segments, in input order,
\* as when the call runs alone; every statement of a call belongs to one of
\* its flushes; and a call that resolves has performed ceil(N / 500) flushes.
C15_ConcurrentCallsShareNothing ==
  \A c \in Calls :
    /\ NumFlushes(c) <= CeilDiv(input[c].n, MAX_OFFERS_PER_BATCH)
    /\ Len(IssuedBy(c, "segments")) = NumFlushes(c)
    /\ pc[c] = "resolved" => NumFlushes(c) = CeilDiv(input[c].n, MAX_OFFERS_PER_BATCH)
    /\ \A k \in 1..NumFlushes(c) :
         /\ stmts[OffersStmt(c, k)].sql.placeholders * Len(OffersColumns)
              = Len(stmts[OffersStmt(c, k)].params)
         /\ stmts[OffersStmt(c, k)].params = AloneFlushes[input[c]][k].offers
         /\ stmts[SegmentsStmt(c, k)].sql.placeholders * Len(SegmentsColumns)
              = Len(stmts[SegmentsStmt(c, k)].params)
         /\ stmts[SegmentsStmt(c, k)].params = AloneFlushes[input[c]][k].segments

\* The second call started, and issued its flush, between the two flushes of
\* the first call; both calls are suspended.
C15_Witness ==
  /\ pc[1] = "await_final"
  /\ pc[2] = "await_loop"
  /\ Len(stmts) = 6
  /\ stmts[1].call = 1
  /\ stmts[3].call = 2
  /\ stmts[5].call = 1
  /\ Pending(3)
  /\ Pending(5)
\* ----------------------------------------------------------------- C16
\* C16: after clear, a builder that held rows builds a statement of zero rows
\* with an empty parameter list, on the same table and columns; so the
\* builder of a resolved call (cleared after its last flush) is empty, the
\* builder of a suspended call holds the rows of its current batch only, and
\* the statement of the k-th flush has the rows of the k-th batch only,
\* starting with the row of input position 500(k-1)+1.
C16_ClearEmptiesBuilder ==
  \A c \in Calls :
    /\ stmt[c].tuples # <<>> =>
         /\ MR_sql(MR_clear(stmt[c])) =
              [table |-> "offers", columns |-> OffersColumns, placeholders |-> 0]
         /\ MR_params(MR_clear(stmt[c])) = <<>>
    /\ pc[c] = "resolved" =>
         /\ MR_sql(stmt[c]).placeholders = 0
         /\ MR_params(stmt[c]) = <<>>
    /\ pc[c] \in {"await_loop", "await_final"} =>
         /\ Len(stmt[c].tuples) = BatchLast(c, NumFlushes(c)) - BatchFirst(NumFlushes(c)) + 1
         /\ MR_params(stmt[c]) = stmts[OffersStmt(c, NumFlushes(c))].params
    /\ \A k \in 1..NumFlushes(c) :
         /\ stmts[OffersStmt(c, k)].sql.placeholders = BatchLast(c, k) - BatchFirst(k) + 1
         /\ Len(stmts[OffersStmt(c, k)].params) =
              Len(OffersColumns) * (BatchLast(c, k) - BatchFirst(k) + 1)
         /\ RowsOf(OffersStmt(c, k))[1] = RowOfOffer[InputOffer(input[c].p, BatchFirst(k))]

\* The call has resolved after two flushes: its builder, which held the one
\* row of the second batch, is empty, and the second statement had that row
\* only.
C16_Witness ==
  /\ pc[1] = "resolved"
  /\ input[1].n = MAX_OFFERS_PER_BATCH + 1
  /\ NumFlushes(1) = 2
  /\ stmt[1].tuples = <<>>
  /\ stmts[OffersStmt(1, 2)].sql.placeholders = 1
\* ----------------------------------------------------------------- C17
\* C17: randomOffers(city, numOffers) returns exactly numOffers offers, for
\* numOffers = 0 too.
C17_ReturnsCountOffers ==
  gen.pc = "returned" => Len(gen.offers) = gen.numOffers

C17_Witness ==
  /\ gen.pc = "returned"
  /\ gen.numOffers = MaxGenerated
  /\ Len(gen.offers) = MaxGenerated
  /\ gen.offers[1] # gen.offers[MaxGenerated]

\* ----------------------------------------------------------------- C18
\* C18: every generated offer has 1 or 2 segments and an integer
\* maximumBidCents with 2 <= maximumBidCents < 15.
C18_GeneratedOffersValid ==
  \A i \in 1..Len(gen.offers) :
    /\ Len(gen.offers[i].segments) \in {1, 2}
    /\ gen.offers[i].maximumBidCents \in 2..14

\* ----------------------------------------------------------------- C19
\* C19: checkPlans returns true exactly when it dropped at least one plan
\* during the call, and false when it dropped none.
C19_TrueIffPlanDropped ==
  plans.pc = "returned" => (plans.result = "true" <=> plans.dropped # {})

\* ----------------------------------------------------------------- C20
\* C20: when runUpdateSegments returns, its result is the upper bound it
\* gave update_segments, and prune_segments if it was called, and every
\* statement of the call has succeeded; in the chain of the calls that
\* returned, each given the previous result as since, every window starts
\* where the previous one ended, and no two windows overlap.
C20_ResultIsNextSince ==
  /\ upd.pc = "returned" =>
       /\ upd.result = upd.execs[1].params[2]
       /\ upd.execs[1].params[1] = upd.since
       /\ Len(upd.execs) = (IF upd.pruneSegments THEN 2 ELSE 1)
       /\ upd.pruneSegments => upd.execs[2].params = <<upd.result>>
       /\ \A i \in 1..Len(upd.execs) : upd.execs[i].status = "ok"
       /\ upd.chain[Len(upd.chain)].result = upd.result
  /\ \A i \in 1..Len(upd.chain) :
       /\ upd.chain[i].result = upd.chain[i].until
       /\ upd.chain[i].since <= upd.chain[i].until
       /\ i > 1 => upd.chain[i].since = upd.chain[i - 1].until
       /\ \A j \in 1..(i - 1) : upd.chain[j].until <= upd.chain[i].since

\* Three calls: the first returned, the second failed, the third returned;
\* time passed before each, and the third window starts where the first ended.
C20_Witness ==
  /\ upd.pc = "returned"
  /\ upd.calls = 3
  /\ Len(upd.chain) = 2
  /\ upd.chain[1].since < upd.chain[1].until
  /\ upd.chain[2].since = upd.chain[1].until
  /\ upd.chain[2].until > upd.chain[2].since

\* ----------------------------------------------------------------- C21
\* The inputs of all the createOffers calls of the specifications.
AllInputs == Inputs \cup RerunInputs \cup ConcurrentCallInputs \cup SegmentlessInputs

\* The segments of the offers of the k-th batch of an input, offer after
\* offer in input order (computed once per input).
BatchSegmentsOfInput ==
  [in \in AllInputs |->
     [k \in 1..CeilDiv(in.n, MAX_OFFERS_PER_BATCH) |->
        SegmentsOfInput(in.p, BatchFirst(k), Min(MAX_OFFERS_PER_BATCH * k, in.n))]]

\* C21: while a call awaits a flush, its pending-segments sequence, which is
\* the list createSegments was given, is the concatenation in input order of
\* the segments of the offers of the flushed batch alone (a segment several
\* of its offers name is there as often as it is named, a segment of an
\* earlier batch only if the batch names it), and the segments statement has
\* one row per element of that list, in its order.
C21_WriterGetsBatchSegments ==
  \A c \in Calls :
    pc[c] \in {"await_loop", "await_final"} =>
      /\ segments[c] = BatchSegmentsOfInput[input[c]][NumFlushes(c)]
      /\ stmts[SegmentsStmt(c, NumFlushes(c))].params =
           FlattenRows([i \in 1..Len(segments[c]) |-> SegmentRow(segments[c][i])],
                       Len(SegmentsColumns))

\* The second flush of a call over 501 offers: the first batch handed over
\* more segments than there are distinct ones, the second hands over the
\* segments of offer 501 only.
C21_Witness ==
  /\ pc[1] = "await_final"
  /\ input[1].n = MAX_OFFERS_PER_BATCH + 1
  /\ NumFlushes(1) = 2
  /\ stmts[SegmentsStmt(1, 1)].sql.placeholders > MAX_OFFERS_PER_BATCH
  /\ segments[1] = InputOffer(input[1].p, MAX_OFFERS_PER_BATCH + 1).segments
  /\ stmts[SegmentsStmt(1, 2)].sql.placeholders = Len(segments[1])

\* ----------------------------------------------------------------- C22
\* The flush call c awaits ends in this step with its Promise.all fulfilled.
FlushSucceeds(c) ==
  /\ pc[c] \in {"await_loop", "await_final"}
  /\ awaiting[c] # {}
  /\ awaiting'[c] # awaiting[c]
  /\ pc'[c] # "rejected"
  /\ pc'[c] = "resolved" \/ idx'[c] > idx[c]

\* The flush call c awaits ends in this step with its Promise.all rejected.
FlushFails(c) ==
  /\ pc[c] \in {"await_loop", "await_final"}
  /\ pc'[c] = "rejected"

\* C22: when a flush succeeds, the call goes on from an empty builder, an
\* empty pending-segments sequence and a counter of 0: what the three hold
\* when the call next suspends or returns is what the offers appended since
\* (input positions idx+1 .. idx') have put there, and nothing if none was
\* appended.  When a flush fails, the three keep what the failed batch put
\* there.
C22_ClearedAfterSuccessOnly ==
  [][\A c \in Calls :
       /\ FlushSucceeds(c) =>
            /\ numOffers'[c] = idx'[c] - idx[c]
            /\ stmt'[c].tuples = InputRows(c, idx[c] + 1, idx'[c])
            /\ segments'[c] = SegmentsOfInput(input[c].p, idx[c] + 1, idx'[c])
            /\ pc'[c] = "resolved" =>
                 /\ numOffers'[c] = 0
                 /\ stmt'[c].tuples = <<>>
                 /\ segments'[c] = <<>>
       /\ FlushFails(c) =>
            /\ numOffers'[c] = numOffers[c]
            /\ numOffers'[c] > 0
            /\ stmt'[c] = stmt[c]
            /\ stmt'[c].tuples # <<>>
            /\ segments'[c] = segments[c]
            /\ segments'[c] # <<>>]_vars

\* A call over more than 500 offers whose first flush succeeded awaits its
\* last flush with the offers after the first 500 only.
C22_Witness ==
  /\ pc[1] = "await_final"
  /\ input[1].n = MAX_OFFERS_PER_BATCH + 1
  /\ Committed(OffersStmt(1, 1))
  /\ Committed(SegmentsStmt(1, 1))
  /\ numOffers[1] = 1
  /\ Len(stmt[1].tuples) = 1
  /\ segments[1] = InputOffer(input[1].p, MAX_OFFERS_PER_BATCH + 1).segments

\* ----------------------------------------------------------------- C23
\* A call is found suspended only at the await of a flush: in the loop with
\* the counter at 500, or after the loop with the input used up and a batch
\* of 1 to 499 offers.
SuspendedAtFlushOnly ==
  \A c \in Calls :
    /\ pc[c] \in {"absent", "idle", "await_loop", "await_final", "resolved", "rejected"}
    /\ pc[c] = "await_loop" =>
         /\ numOffers[c] = MAX_OFFERS_PER_BATCH
         /\ idx[c] = MAX_OFFERS_PER_BATCH * NumFlushes(c)
    /\ pc[c] = "await_final" =>
         /\ idx[c] = input[c].n
         /\ numOffers[c] \in 1..(MAX_OFFERS_PER_BATCH - 1)
         /\ numOffers[c] = input[c].n - MAX_OFFERS_PER_BATCH * (NumFlushes(c) - 1)

\* In a step in which call c appends offers it appends a whole batch (500
\* offers, or what is left of the input), and nothing of another call or of
\* the database changes in it but the log, which gets the batch's statements.
AppendsUninterrupted ==
  \A c \in Calls :
    idx'[c] # idx[c] =>
      /\ idx'[c] = Min(idx[c] + MAX_OFFERS_PER_BATCH, input[c].n)
      /\ \A d \in Calls \ {c} :
           /\ pc'[d] = pc[d]
           /\ idx'[d] = idx[d]
           /\ stmt'[d] = stmt[d]
           /\ numOffers'[d] = numOffers[d]
           /\ segments'[d] = segments[d]
           /\ awaiting'[d] = awaiting[d]
      /\ \A k \in 1..Len(stmts) : stmts'[k].call = stmts[k].call
                                  /\ stmts'[k].params = stmts[k].params
      /\ \A k \in (Len(stmts) + 1)..Len(stmts') : stmts'[k].call = c
      /\ Len(stmts') = Len(stmts) + 2

\* C23: a createOffers call suspends only at the await of a flush (counter
\* at 500, or input used up with a non-empty batch), and the appends of a
\* batch happen in one uninterrupted run in which no other call takes a step.
C23_YieldsOnlyAtFlush ==
  []SuspendedAtFlushOnly /\ [][AppendsUninterrupted]_vars

\* Two calls are suspended at once: the first at its final flush with one
\* offer, the second at a flush in the loop with 500, the second having
\* appended its batch while the first was suspended at its first flush.
C23_Witness ==
  /\ pc[1] = "await_final"
  /\ numOffers[1] = 1
  /\ pc[2] = "await_loop"
  /\ numOffers[2] = MAX_OFFERS_PER_BATCH
  /\ Len(stmts) = 6
  /\ stmts[3].call = 2

\* ----------------------------------------------------------------- C24
\* The locals call c takes up the for loop with at its next step: those of
\* its first lines if it has not started, those commitBatch leaves if it
\* awaits a flush in the loop.
ResumeLocals(c) ==
  IF pc[c] = "idle" THEN {InitialLocals}
  ELSE IF pc[c] = "await_loop" THEN {[AfterCommit(Locals(c)) EXCEPT !.pc = "loop"]}
  ELSE {}

\* The numbers of iterations after which the loop is looked at: before the
\* first append, after it, before the 500th and after it.
AppendPoints == {0, 1, MAX_OFFERS_PER_BATCH - 1, MAX_OFFERS_PER_BATCH}

\* C24: in every state numOffers is the number of rows in the offers
\* builder and lies in 0..500; on the way through a batch the counter and
\* the builder grow together from 0, and the loop is at an append only with
\* the counter below 500 (at 500 it is at commitBatch); every offers
\* statement carries between 1 and 500 rows.
C24_CounterCountsBuilderRows ==
  /\ \A c \in Calls :
       /\ numOffers[c] = Len(stmt[c].tuples)
       /\ numOffers[c] \in 0..MAX_OFFERS_PER_BATCH
       /\ \A L \in ResumeLocals(c) :
          \A j \in {i \in AppendPoints : i <= input[c].n - L.idx} :
          \A M \in {Iterate(c, L, j)} :
            /\ M.numOffers = j
            /\ Len(M.stmt.tuples) = j
            /\ M.pc = "loop" <=> j < MAX_OFFERS_PER_BATCH
            /\ M.pc = "commit_loop" <=> j = MAX_OFFERS_PER_BATCH
  /\ \A k \in 1..Len(stmts) :
       stmts[k].sql.table = "offers" =>
         /\ stmts[k].sql.placeholders \in 1..MAX_OFFERS_PER_BATCH
         /\ Len(stmts[k].params) = stmts[k].sql.placeholders * Len(OffersColumns)

\* A call over 501 offers awaits its first flush with counter and builder at
\* 500, the statement carrying 500 rows, and one offer left to append.
C24_Witness ==
  /\ pc[1] = "await_loop"
  /\ input[1].n = MAX_OFFERS_PER_BATCH + 1
  /\ numOffers[1] = MAX_OFFERS_PER_BATCH
  /\ Len(stmt[1].tuples) = MAX_OFFERS_PER_BATCH
  /\ stmts[OffersStmt(1, 1)].sql.placeholders = MAX_OFFERS_PER_BATCH
  /\ pc[2] = "idle"

\* ----------------------------------------------------------------- C25
\* C25: every flush of a createOffers call issues two statements together,
\* the offers statement and right after it the segments statement, and no
\* other; a batch whose offers have no segment still gets its segments
\* statement, with zero rows and no parameters; a createSegments call made
\* by the caller itself issues exactly one segments statement, with one row
\* per element of its list, and so with zero rows for the empty list.
C25_TwoStatementsPerFlush ==
  /\ \A c \in {d \in Calls : pc[d] \in {"await_loop", "await_final", "resolved", "rejected"}
                              /\ input[d].n > 0} :
       /\ Len(IssuedBy(c, "segments")) = NumFlushes(c)
       /\ Cardinality({k \in 1..Len(stmts) : stmts[k].call = c}) = 2 * NumFlushes(c)
       /\ pc[c] \in {"await_loop", "await_final"} =>
            NumFlushes(c) = CeilDiv(idx[c], MAX_OFFERS_PER_BATCH)
       /\ \A k \in 1..NumFlushes(c) :
            /\ SegmentsStmt(c, k) = OffersStmt(c, k) + 1
            /\ stmts[SegmentsStmt(c, k)].sql.columns = SegmentsColumns
            /\ stmts[SegmentsStmt(c, k)].sql.placeholders =
                 Len(BatchSegmentsOfInput[input[c]][k])
            /\ input[c].p = EmptyPattern =>
                 /\ stmts[SegmentsStmt(c, k)].sql.placeholders = 0
                 /\ stmts[SegmentsStmt(c, k)].params = <<>>
  /\ \A c \in {d \in Calls : input[d].n = 0} :
       /\ pc[c] = "segments_idle" => {k \in 1..Len(stmts) : stmts[k].call = c} = {}
       /\ pc[c] \in {"await_segments", "resolved", "rejected"} =>
            \E k \in 1..Len(stmts) :
              /\ {j \in 1..Len(stmts) : stmts[j].call = c} = {k}
              /\ stmts[k].sql.table = "segments"
              /\ stmts[k].sql.placeholders = Len(segments[c])
              /\ Len(stmts[k].params) = Len(segments[c]) * Len(SegmentsColumns)

\* A call over 501 offers without segments awaits its second flush, the
\* first one done: both flushes issued a segments statement of zero rows;
\* and createSegments([]) by the caller has executed its one statement, of
\* zero rows.
C25_Witness ==
  /\ input[1] = [n |-> MAX_OFFERS_PER_BATCH + 1, p |-> EmptyPattern]
  /\ pc[1] = "await_final"
  /\ NumFlushes(1) = 2
  /\ Committed(SegmentsStmt(1, 1))
  /\ stmts[SegmentsStmt(1, 1)].sql.placeholders = 0
  /\ stmts[SegmentsStmt(1, 2)].sql.placeholders = 0
  /\ stmts[OffersStmt(1, 2)].sql.placeholders = 1
  /\ pc[2] = "resolved"
  /\ segments[2] = <<>>
  /\ \E k \in 1..Len(stmts) : stmts[k].call = 2 /\ stmts[k].sql.placeholders = 0
                              /\ Committed(k)

\* ----------------------------------------------------------------- C26
\* The statements of a full resetSchema, in the order of its code.
FullResetOrder(includeSeedData) ==
  <<ResetStmt("DROP DATABASE", 0), ResetStmt("CREATE DATABASE", 0)>>
    \o [j \in 1..NumFunctions |-> ResetStmt("function", j)]
    \o [j \in 1..NumTables |-> ResetStmt("table", j)]
    \o [j \in 1..NumProcedures |-> ResetStmt("procedure", j)]
    \o <<ResetStmt("createCity", 0)>>
    \o (IF includeSeedData THEN [j \in 1..NumSeed |-> ResetStmt("seed", j)] ELSE <<>>)

\* The progress callback has reported "Schema initialized" with success.
ReportedInitialized ==
  \E m \in 1..Len(reset.progress) : reset.progress[m].status = "success"

\* C26: a full resetSchema issues DROP DATABASE, CREATE DATABASE, the
\* functions, the tables, the procedures, the default city and then, only
\* if includeSeedData, the seed statements, in this order; a statement is
\* issued only when every earlier one has succeeded; a failed statement is
\* the last one issued and the call has rejected; "Schema initialized" is
\* reported, once and last, exactly when the call has resolved, and then
\* every statement of the list was issued and has succeeded.
C26_FullResetInOrder ==
  (reset.pc \notin {"unused", "idle"} /\ ~reset.resetDataOnly) =>
    LET order == FullResetOrder(reset.includeSeedData)
        n == Len(reset.issued)
    IN  /\ n \in 1..Len(order)
        /\ \A k \in 1..n : /\ reset.issued[k].kind = order[k].kind
                            /\ reset.issued[k].obj = order[k].obj
        /\ \A k \in 1..(n - 1) : reset.issued[k].status = "ok"
        /\ reset.issued[n].status = "failed" <=> reset.pc = "rejected"
        /\ reset.issued[n].status = "pending" <=> reset.awaiting = {n}
        /\ ReportedInitialized <=> reset.pc = "resolved"
        /\ reset.pc = "resolved" =>
             /\ n = Len(order)
             /\ reset.issued[n].status = "ok"
             /\ reset.progress[Len(reset.progress)].status = "success"
             /\ \A m \in 1..(Len(reset.progress) - 1) : reset.progress[m].status = "info"

\* A full reset with seed data has resolved: every statement was issued and
\* has succeeded, and "Schema initialized" was reported.
C26_Witness ==
  /\ reset.pc = "resolved"
  /\ ~reset.resetDataOnly
  /\ reset.includeSeedData
  /\ Len(reset.issued) = 2 + NumFunctions + NumTables + NumProcedures + 1 + NumSeed
  /\ reset.issued[Len(reset.issued)].kind = "seed"
  /\ ReportedInitialized

\* ----------------------------------------------------------------- C27
\* The statements of a kind resetSchema has issued, as positions of its log.
ResetIssued(kind) == {k \in 1..Len(reset.issued) : reset.issued[k].kind = kind}

\* The statements at the positions K have all succeeded.
ResetAllOk(K) == \A k \in K : reset.issued[k].status = "ok"

\* C27: resetSchema with resetDataOnly issues no DROP DATABASE and no CREATE
\* DATABASE; it issues STOP ALL PIPELINES first; the three DROP PIPELINE
\* statements are issued together and only when STOP ALL PIPELINES has
\* succeeded; the eleven TRUNCATE TABLE statements are issued together and
\* only when the three drops have succeeded; a function, table or procedure
\* is created only when all eleven truncates have succeeded.
C27_DataResetStages ==
  (reset.pc \notin {"unused", "idle"} /\ reset.resetDataOnly) =>
    /\ ResetIssued("DROP DATABASE") = {}
    /\ ResetIssued("CREATE DATABASE") = {}
    /\ ResetIssued("STOP ALL PIPELINES") = {1}
    /\ ResetIssued("DROP PIPELINE") # {} =>
         /\ ResetAllOk({1})
         /\ ResetIssued("DROP PIPELINE") = 2..(1 + Len(pipelineNames))
         /\ \A j \in 1..Len(pipelineNames) : reset.issued[1 + j].obj = j
    /\ ResetIssued("TRUNCATE TABLE") # {} =>
         /\ ResetAllOk(ResetIssued("DROP PIPELINE"))
         /\ ResetIssued("TRUNCATE TABLE") =
              (2 + Len(pipelineNames))..(1 + Len(pipelineNames) + Len(TruncatedTables))
         /\ \A j \in 1..Len(TruncatedTables) :
              reset.issued[1 + Len(pipelineNames) + j].obj = j
    /\ ResetIssued("function") \cup ResetIssued("table") \cup ResetIssued("procedure") # {} =>
         /\ Cardinality(ResetIssued("TRUNCATE TABLE")) = Len(TruncatedTables)
         /\ ResetAllOk(ResetIssued("TRUNCATE TABLE"))
         /\ \A k \in ResetIssued("function") \cup ResetIssued("table")
                         \cup ResetIssued("procedure") :
              \A t \in ResetIssued("TRUNCATE TABLE") : t < k

\* A data-only reset has gone through its three stages and awaits the
\* creation of the first function.
C27_Witness ==
  /\ reset.resetDataOnly
  /\ reset.pc = "functions"
  /\ reset.i = 1
  /\ Len(reset.issued) = 1 + Len(pipelineNames) + Len(TruncatedTables) + 1
  /\ Len(TruncatedTables) = 11
  /\ ResetAllOk(ResetIssued("TRUNCATE TABLE"))
  /\ reset.issued[Len(reset.issued)].status = "pending"

\* ----------------------------------------------------------------- C28
\* The kinds of a sequence of log positions.
KindsOf(log, ks) == [m \in 1..Len(ks) |-> log[ks[m]].kind]

\* C28: for every pipeline, the statements ensurePipelinesExist has issued
\* are the first ones of create pipeline, ALTER PIPELINE, START PIPELINE, in
\* this order, each issued only when the one before has succeeded, and none
\* at all if needsUpdate is false; no statement is issued before the status
\* query (and the partition count) has returned; when the call resolves,
\* every pipeline with needsUpdate has all three, succeeded.
C28_PerPipelineOrder ==
  pipes.pc \notin {"unused", "idle"} =>
    /\ pipes.log[1].kind = "pipelineStatus"
    /\ \A k \in 1..Len(pipes.log) :
         pipes.log[k].pipeline > 0 =>
           /\ k > 2
           /\ pipes.log[1].status = "ok"
           /\ pipes.log[2].kind = "countPartitions"
           /\ pipes.log[2].status = "ok"
           /\ pipes.pipelines[pipes.log[k].pipeline].needsUpdate = "true"
    /\ \A j \in 1..Len(pipelineNames) :
         LET chain == ChainOf(pipes.log, j)
         IN  /\ Len(chain) <= 3
             /\ KindsOf(pipes.log, chain) =
                  SubSeq(<<"CREATE PIPELINE", "ALTER PIPELINE", "START PIPELINE">>,
                         1, Len(chain))
             /\ \A m \in 1..(Len(chain) - 1) : pipes.log[chain[m]].status = "ok"
             /\ (pipes.pc = "resolved" /\ pipes.pipelines[j].needsUpdate = "true") =>
                  /\ Len(chain) = 3
                  /\ pipes.log[chain[3]].status = "ok"

\* The locations and purchases pipelines need an update, the requests
\* pipeline does not: purchases has got its three statements while
\* locations still waits for its first, and requests has got none.
C28_Witness ==
  /\ pipes.pc = "await_all"
  /\ pipes.pipelines[1].needsUpdate = "true"
  /\ pipes.pipelines[2].needsUpdate = "false"
  /\ pipes.pipelines[3].needsUpdate = "true"
  /\ Len(pipes.log) = 6
  /\ KindsOf(pipes.log, ChainOf(pipes.log, 3)) =
       <<"CREATE PIPELINE", "ALTER PIPELINE", "START PIPELINE">>
  /\ pipes.log[3] = [kind |-> "CREATE PIPELINE", pipeline |-> 1, status |-> "pending"]
  /\ ChainOf(pipes.log, 2) = <<>>

\* ----------------------------------------------------------------- C29
\* C29: whatever rows its query returns, pipelineStatus returns three
\* entries, for locations, requests and purchases in this order; the entry
\* of a pipeline has the needsUpdate of the pipeline's row, and true if the
\* row has NULL there or if there is no row for the pipeline; so once the
\* queries have returned, ensurePipelinesExist has issued the create
\* statement of every pipeline that has no row.
C29_ThreeEntriesMissingNeedsUpdate ==
  pipes.pc \in {"await_count", "await_all", "resolved"} =>
    /\ Len(pipes.pipelines) = 3
    /\ [j \in 1..3 |-> pipes.pipelines[j].pipelineName] =
         <<"locations", "requests", "purchases">>
    /\ \A j \in 1..3 :
         LET present == {m \in 1..Len(pipes.rows) :
                           pipes.rows[m].pipelineName = pipes.pipelines[j].pipelineName}
         IN  /\ present = {} => pipes.pipelines[j].needsUpdate = "true"
             /\ \A m \in present :
                  pipes.pipelines[j].needsUpdate =
                    (IF pipes.rows[m].needsUpdate = "null" THEN "true"
                     ELSE pipes.rows[m].needsUpdate)
             /\ (present = {} /\ pipes.pc \in {"await_all", "resolved"}) =>
                  \E k \in 1..Len(pipes.log) :
                    /\ pipes.log[k].pipeline = j
                    /\ pipes.log[k].kind = "CREATE PIPELINE"

\* The query returned the row of purchases only, which needs no update: the
\* result has three entries, and the call has resolved after creating the
\* two missing pipelines.
C29_Witness ==
  /\ pipes.pc = "resolved"
  /\ pipes.rows = <<StatusRow("purchases", "false")>>
  /\ pipes.pipelines = <<StatusRow("locations", "true"), StatusRow("requests", "true"),
                         StatusRow("purchases", "false")>>
  /\ Len(ChainOf(pipes.log, 1)) = 3
  /\ Len(ChainOf(pipes.log, 2)) = 3
  /\ ChainOf(pipes.log, 3) = <<>>

\* ----------------------------------------------------------------- C30
\* Every expected table, procedure and function is among the rows under its
\* own kind.
AllExpectedFound(rows) ==
  /\ \A j \in 1..Len(TABLES) : <<"tables", TABLES[j]>> \in rows
  /\ \A j \in 1..Len(PROCEDURES) : <<"procedures", PROCEDURES[j]>> \in rows
  /\ \A j \in 1..Len(FUNCTIONS) : <<"functions", FUNCTIONS[j]>> \in rows

ExpectedNames ==
  {TABLES[j] : j \in 1..Len(TABLES)} \cup {PROCEDURES[j] : j \in 1..Len(PROCEDURES)}
    \cup {FUNCTIONS[j] : j \in 1..Len(FUNCTIONS)}

\* C30: when the query fails for an unknown or a recovering database,
\* schemaObjects reports every expected object as absent and hasSchema
\* returns false, without throwing; any other error of the query is thrown
\* on unchanged; hasSchema returns true exactly when every expected table,
\* procedure and function is among the returned rows under its own kind.
C30_SchemaErrorsAndAnswer ==
  /\ schema.error \in {"SQLError: unknown database", "SQLError: database recovering"} =>
       /\ schema.pc = "returned"
       /\ DOMAIN schema.objects = ExpectedNames
       /\ \A name \in ExpectedNames : schema.objects[name] = FALSE
       /\ schema.result = FALSE
       /\ schema.thrown = "none"
  /\ schema.error \in {"SQLError: access denied", "Error: network"} =>
       /\ schema.pc = "threw"
       /\ schema.thrown = schema.error
  /\ schema.pc = "returned" =>
       /\ DOMAIN schema.objects = ExpectedNames
       /\ schema.result = TRUE <=>
            (schema.error = "none" /\ AllExpectedFound(schema.rows))
  /\ schema.pc = "threw" => schema.result = FALSE

\* The database is unknown: the query failed, hasSchema has returned false.
C30_Witness ==
  /\ schema.pc = "returned"
  /\ schema.error = "SQLError: unknown database"
  /\ schema.result = FALSE
  /\ schema.objects["cities"] = FALSE
====
